---------------------------- MODULE Spec2Model ----------------------------
(***************************************************************************)
(* EVAQUA: glacier run-off and flood-risk dashboard (Aysen, Chile).        *)
(*                                                                         *)
(* The module models                                                       *)
(*   - EVAQUACalculator (src/src/evaqua.py): the model chain melt ->       *)
(*     runoff -> risk -> merge -> 3-day projection -> flood zones, and the *)
(*     orchestration that feeds it (load, topography, climate);            *)
(*   - HRUGenerator.generate_hrus (src/src/hru_generator.py);              *)
(*   - GlacierMonitor (src/src/monitoring.py).                             *)
(*                                                                         *)
(* Numbers.  The program computes in floating point; the model computes    *)
(* the same expressions exactly, in fixed point, on a grid of inputs:      *)
(*   temperature      1/TempDen  degree C      (TempDen = 2000)            *)
(*   elevation        1 m        (lapse rate -0.0065 C/m = -13/TempDen)    *)
(*   melt             1/TempDen  mm/day                                    *)
(*   precipitation    PrecipUnit mm            (PrecipUnit = 36)           *)
(*   intensity        1/2 mm/h   (PrecipUnit/24 mm/h = 3 halves)           *)
(*   area             1 km2                                                *)
(*   runoff coeff.    1/20                                                 *)
(*   runoff           3/RunoffDen m3/s         (RunoffDen = 20000)         *)
(*   components       1/CompDen                (CompDen = 40 000 000)      *)
(*   scores           1/ScoreDen               (ScoreDen = 20 * CompDen)   *)
(* so that every product and quotient of the code is an integer.  NaN is   *)
(* the missing value of a pandas table, Absent a key or column that does   *)
(* not exist.                                                              *)
(***************************************************************************)
EXTENDS Integers, Sequences, FiniteSets, TLC

VARIABLES
    \* ---- EVAQUACalculator._classify_risk harness
    cr_score,        \* the score handed to _classify_risk
    cr_class,        \* what it returned ("none" before the call)
    \* ---- GlacierMonitor
    alerts_history,  \* self.alerts_history
    mon_calls,       \* number of analyze_glacier calls made
    mon_result,      \* what the last call returned
    mon_query,       \* the last query made and what it returned
    \* ---- HRUGenerator.generate_hrus
    hru_subs,        \* _subcuencas_gdf: the sub-basin rows handed in
    hru_pc,          \* "ready" before the call, "done" after it ("grid"
                     \* after the fallback grid)
    hru_ndivs,       \* n_div as decided in each iteration of the loop
    hrus,            \* the list of units built
    \* ---- EVAQUACalculator
    grids_gdf,       \* self.grids_gdf: the analysis units
    topo_data,       \* self.topo_data
    climate_data,    \* self.climate_data
    melt_df,         \* the locals of run_full_analysis / load_evaqua_analysis
    runoff_df,
    risk_df,
    proj_df,
    results_gdf,     \* self.results_gdf
    pc,              \* the statement of the flow that runs next
    caller,          \* the flow: run_full_analysis or load_evaqua_analysis
    glaciers_gdf,    \* self.glaciers_gdf: "none", "raw" (as loaded, without
                     \* a grid_id column) or "joined" (with grid_id)
    load_result,     \* what load_base_data returned ("none" before it)
    last_update,     \* self.last_update: 0 for None, else a time
    \* ---- ai_alerts.render_ai_alert_section
    ai_input,        \* the results table handed in
    ai_pc,           \* "ready" before the call, "done" after it
    ai_passed,       \* the records passed to generate_ai_report
    ai_prompt,       \* what generate_ai_report put into the prompt
    \* ---- DataGenerator
    GLACIARES,       \* the catalog (class attribute): the ids of its entries
    gen_calls,       \* number of calls made
    gen_call,        \* the last call
    gen_outcome,     \* what it returned or raised
    \* ---- RealDataProvider
    temperature_cache, \* _temperature_cache: zone_id -> record
    prov_calls,      \* number of calls made (the time)
    prov_requests,   \* number of HTTP requests issued
    prov_result,     \* the last call and what it returned or raised
    \* ---- app.py: the dashboard and its two caches
    calculator,      \* the instance init_evaqua() keeps for the process: the
                     \* generation of its layers (glaciers_gdf, grids_gdf,
                     \* ..) and of its results_gdf, 0 for None
    analysis_cache,  \* the entry of load_evaqua_analysis in st.cache_resource
    sessions,        \* per browser session: where its script run stands,
                     \* the snapshot it got, the layers its map was drawn from
    dash_loads       \* number of runs of load_evaqua_analysis' body started

classifyVars == <<cr_score, cr_class>>
monitorVars  == <<alerts_history, mon_calls, mon_result, mon_query>>
hruVars      == <<hru_subs, hru_pc, hru_ndivs, hrus>>
calcVars     == <<grids_gdf, topo_data, climate_data, melt_df, runoff_df,
                  risk_df, proj_df, results_gdf, pc, caller,
                  glaciers_gdf, load_result, last_update>>
aiVars       == <<ai_input, ai_pc, ai_passed, ai_prompt>>
genVars      == <<GLACIARES, gen_calls, gen_call, gen_outcome>>
provVars     == <<temperature_cache, prov_calls, prov_requests, prov_result>>
dashVars     == <<calculator, analysis_cache, sessions, dash_loads>>
auxVars      == <<aiVars, genVars, provVars, dashVars>>
nonCalcVars  == <<classifyVars, monitorVars, hruVars, auxVars>>
vars == <<cr_score, cr_class, alerts_history, mon_calls, mon_result,
          mon_query,
          hru_subs, hru_pc, hru_ndivs, hrus,
          grids_gdf, topo_data, climate_data, melt_df, runoff_df,
          risk_df, proj_df, results_gdf, pc, caller,
                  glaciers_gdf, load_result, last_update,
          ai_input, ai_pc, ai_passed, ai_prompt,
          GLACIARES, gen_calls, gen_call, gen_outcome,
          temperature_cache, prov_calls, prov_requests, prov_result,
          calculator, analysis_cache, sessions, dash_loads>>

-----------------------------------------------------------------------------
(* Missing values *)

\* pandas' missing value (float nan): what a left merge leaves in the columns
\* of a row with no match, and what a record without a key becomes in a table.
NaN == -999999999
\* a key or a column that does not exist: dict.get / row.get give their default
Absent == -999999998

IsNum(x) == x # NaN /\ x # Absent

\* float comparisons: every comparison with nan is False
Lt(a, b) == a # NaN /\ b # NaN /\ a < b
Gt(a, b) == a # NaN /\ b # NaN /\ a > b
Le(a, b) == a # NaN /\ b # NaN /\ a <= b

\* Python's max(a, b): b if b > a else a;   min(a, b): b if b < a else a
PyMax(a, b) == IF Gt(b, a) THEN b ELSE a
PyMin(a, b) == IF Lt(b, a) THEN b ELSE a

\* nan propagates through + and *
Add(a, b) == IF a = NaN \/ b = NaN THEN NaN ELSE a + b
Mul(a, b) == IF a = NaN \/ b = NaN THEN NaN ELSE a * b

-----------------------------------------------------------------------------
(* Units *)

TempDen    == 2000
PrecipUnit == 36
RunoffDen  == 20000
CompDen    == 40000000
ScoreDen   == 20 * CompDen

-----------------------------------------------------------------------------
(* EVAQUACalculator._classify_risk *)

\* RISK_LEVELS, in the dict's order: (level, min_val, max_val), in 1/ScoreDen
RISK_LEVELS ==
    << <<"bajo",    0,                  ScoreDen \div 4>>,
       <<"medio",   ScoreDen \div 4,    ScoreDen \div 2>>,
       <<"alto",    ScoreDen \div 2,    3 * (ScoreDen \div 4)>>,
       <<"critico", 3 * (ScoreDen \div 4), ScoreDen>> >>

\* a plausible slip: the range test written  min_val < score <= max_val
classify_risk_upper_inclusive(score) ==
    LET hit == {i \in 1..Len(RISK_LEVELS) :
                   Lt(RISK_LEVELS[i][2], score) /\ Le(score, RISK_LEVELS[i][3])}
    IN  IF hit = {} THEN "critico"
        ELSE RISK_LEVELS[CHOOSE i \in hit : \A j \in hit : i <= j][1]

\* for level, (min_val, max_val, ..) in RISK_LEVELS.items():
\*     if min_val <= score < max_val: return level
\* return 'critico'
classify_risk(score) ==
    LET hit == {i \in 1..Len(RISK_LEVELS) :
                   Le(RISK_LEVELS[i][2], score) /\ Lt(score, RISK_LEVELS[i][3])}
    IN  IF hit = {} THEN "critico"
        ELSE RISK_LEVELS[CHOOSE i \in hit : \A j \in hit : i <= j][1]

\* scores tried: a grid of hundredths from -0.10 to 1.30, the values next to
\* each boundary, and nan
ScoreGridLo == 10
ScoreGridHi == 130
ClassifyInputs ==
    {k * (ScoreDen \div 100) : k \in (0 - ScoreGridLo)..ScoreGridHi}
    \cup {b * (ScoreDen \div 4) + d : b \in 0..4, d \in {-8000, -1, 0, 1}}
    \cup {NaN}

ClassifyInit == /\ cr_score \in ClassifyInputs
                /\ cr_class = "none"
ClassifyIdle == /\ cr_score = 0
                /\ cr_class = "none"

ClassifyRisk ==
    /\ cr_class = "none"
    /\ cr_class' = classify_risk(cr_score)
    /\ UNCHANGED <<cr_score, monitorVars, hruVars, calcVars, auxVars>>

-----------------------------------------------------------------------------
(* GlacierMonitor *)

\* src/src/config.py
TEMP_THRESHOLD_WARNING  == 3
TEMP_THRESHOLD_CRITICAL == 5
MELT_RATE_WARNING       == 10
MELT_RATE_CRITICAL      == 25
VOLUME_LOSS_WARNING     == 10
VOLUME_LOSS_CRITICAL    == 25
VELOCITY_WARNING        == 100
VELOCITY_CRITICAL       == 200

\* glacier_data.get(key, 0)
GetOr0(d, key) == IF d[key] = Absent THEN 0 ELSE d[key]

\* the common body of _analyze_temperature, _analyze_melt_rate,
\* _analyze_volume_loss and _analyze_velocity
analyze_metric(type, value, warning, critical) ==
    LET level == IF value >= critical THEN "critical"
                 ELSE IF value >= warning THEN "warning" ELSE "info"
    IN  [type |-> type, alert |-> level # "info", level |-> level,
         value |-> value,
         threshold |-> IF level = "critical" THEN critical ELSE warning]

analyze_temperature(d) ==
    analyze_metric("temperature", GetOr0(d, "temperature"),
                   TEMP_THRESHOLD_WARNING, TEMP_THRESHOLD_CRITICAL)
analyze_melt_rate(d) ==
    analyze_metric("melt_rate", GetOr0(d, "melt_rate"),
                   MELT_RATE_WARNING, MELT_RATE_CRITICAL)
analyze_volume_loss(d) ==
    analyze_metric("volume_loss", GetOr0(d, "volume_loss_percent"),
                   VOLUME_LOSS_WARNING, VOLUME_LOSS_CRITICAL)
analyze_velocity(d) ==
    analyze_metric("velocity", GetOr0(d, "velocity"),
                   VELOCITY_WARNING, VELOCITY_CRITICAL)

\* a plausible slip: the "elif status != critical" guard left out, so that a
\* later warning overwrites an earlier critical
status_step_last_wins(acc, a) ==
    IF ~a.alert THEN acc
    ELSE <<Append(acc[1], a),
           IF a.level = "critical" THEN "critical" ELSE "warning">>

\* one block of analyze_glacier:
\*   if a["alert"]: alerts.append(a)
\*       if a["level"] == "critical": status = "critical"
\*       elif status != "critical":   status = "warning"
\* acc = <<alerts, status>>
status_step(acc, a) ==
    IF ~a.alert THEN acc
    ELSE <<Append(acc[1], a),
           IF a.level = "critical" THEN "critical"
           ELSE IF acc[2] # "critical" THEN "warning" ELSE acc[2]>>

\* the record analyze_glacier builds (timestamp: the number of the call)
analyze_result(d, now) ==
    LET s1 == status_step(<< <<>>, "normal" >>, analyze_temperature(d))
        s2 == status_step(s1, analyze_melt_rate(d))
        s3 == status_step(s2, analyze_volume_loss(d))
        s4 == status_step(s3, analyze_velocity(d))
    IN  [timestamp |-> now,
         status |-> s4[2],
         alerts |-> s4[1],
         temperature |-> GetOr0(d, "temperature"),
         melt_rate |-> GetOr0(d, "melt_rate"),
         volume_loss_percent |-> GetOr0(d, "volume_loss_percent"),
         velocity |-> GetOr0(d, "velocity")]

\* glacier records tried: every value next to a threshold of one metric (or
\* the key missing), the other three metrics all low, all at warning level or
\* all at critical level
MetricKeys == {"temperature", "melt_rate", "volume_loss_percent", "velocity"}
MetricValues ==
    [temperature |-> {Absent, TEMP_THRESHOLD_WARNING - 1, TEMP_THRESHOLD_WARNING,
                      TEMP_THRESHOLD_CRITICAL - 1, TEMP_THRESHOLD_CRITICAL,
                      TEMP_THRESHOLD_CRITICAL + 1},
     melt_rate |-> {MELT_RATE_WARNING - 1, MELT_RATE_WARNING,
                    MELT_RATE_CRITICAL - 1, MELT_RATE_CRITICAL},
     volume_loss_percent |-> {VOLUME_LOSS_WARNING - 2, VOLUME_LOSS_WARNING,
                              VOLUME_LOSS_CRITICAL - 1, VOLUME_LOSS_CRITICAL},
     velocity |-> {VELOCITY_WARNING - 10, VELOCITY_WARNING,
                   VELOCITY_CRITICAL - 1, VELOCITY_CRITICAL}]
MetricProfiles ==
    { [temperature |-> 1, melt_rate |-> 2, volume_loss_percent |-> 3,
       velocity |-> 40],
      [temperature |-> 4, melt_rate |-> 12, volume_loss_percent |-> 15,
       velocity |-> 150],
      [temperature |-> 7, melt_rate |-> 30, volume_loss_percent |-> 40,
       velocity |-> 250] }
GlacierInputs ==
    {[p EXCEPT ![k] = v] : <<p, k, v>> \in
        {<<q, j, w>> \in MetricProfiles \X MetricKeys
                          \X UNION {MetricValues[m] : m \in MetricKeys} :
            w \in MetricValues[j]}}

MaxHistory == 2

\* self.alerts_history.append(result), and a variant that keeps only the
\* newest entry
history_append_pruned(history, result) == <<result>>
history_append(history, result) == Append(history, result)

\* alert.get("status", "info")
status_of(entry) == IF "status" \in DOMAIN entry THEN entry.status ELSE "info"

\* get_alerts_by_level(level); "" stands for None or the empty string, for
\* which the history itself is returned
QueryLevels == {"", "info", "normal", "warning", "critical"}
get_alerts_by_level(history, level) ==
    IF level = "" THEN history
    ELSE SelectSeq(history, LAMBDA e : status_of(e) = level)

\* get_critical_glaciers()
get_critical_glaciers(history) ==
    SelectSeq(history, LAMBDA e : status_of(e) = "critical")

\* get_alerts_summary(): "if status in summary: summary[status] += 1", and a
\* variant that counts every other status as info
summary_bucket_default_info(status) ==
    IF status \in {"info", "warning", "critical"} THEN status ELSE "info"
summary_bucket(status) ==
    IF status \in {"info", "warning", "critical"} THEN status ELSE "skipped"
get_alerts_summary(history) ==
    [k \in {"info", "warning", "critical"} |->
        Cardinality({i \in 1..Len(history) :
                        summary_bucket(status_of(history[i])) = k})]

NoSummary == [info |-> 0, warning |-> 0, critical |-> 0]

MonitorInit == /\ alerts_history = <<>>
               /\ mon_calls = 0
               /\ mon_result = [timestamp |-> 0]
               /\ mon_query = [op |-> "none", level |-> "", at |-> 0,
                               list |-> <<>>, summary |-> NoSummary]

\* analyze_glacier(glacier_data)
AnalyzeGlacier ==
    /\ mon_calls < MaxHistory
    /\ \E d \in GlacierInputs :
         LET result == analyze_result(d, mon_calls + 1)
         IN  /\ alerts_history' = history_append(alerts_history, result)
             /\ mon_result' = result
    /\ mon_calls' = mon_calls + 1
    /\ UNCHANGED <<mon_query, classifyVars, hruVars, calcVars, auxVars>>

\* the three queries; each returns a value and assigns nothing
GetAlertsByLevel ==
    /\ \E level \in QueryLevels :
         mon_query' = [op |-> "get_alerts_by_level", level |-> level,
                       at |-> mon_calls,
                       list |-> get_alerts_by_level(alerts_history, level),
                       summary |-> NoSummary]
    /\ UNCHANGED <<alerts_history, mon_calls, mon_result>>
    /\ UNCHANGED <<classifyVars, hruVars, calcVars, auxVars>>

GetCriticalGlaciers ==
    /\ mon_query' = [op |-> "get_critical_glaciers", level |-> "",
                     at |-> mon_calls,
                     list |-> get_critical_glaciers(alerts_history),
                     summary |-> NoSummary]
    /\ UNCHANGED <<alerts_history, mon_calls, mon_result>>
    /\ UNCHANGED <<classifyVars, hruVars, calcVars, auxVars>>

GetAlertsSummary ==
    /\ mon_query' = [op |-> "get_alerts_summary", level |-> "",
                     at |-> mon_calls, list |-> <<>>,
                     summary |-> get_alerts_summary(alerts_history)]
    /\ UNCHANGED <<alerts_history, mon_calls, mon_result>>
    /\ UNCHANGED <<classifyVars, hruVars, calcVars, auxVars>>

-----------------------------------------------------------------------------
(* HRUGenerator.generate_hrus *)

\* A sub-basin row is [cod, area_km2, g_count, g_density, gap]:
\*   cod        sub['COD_SUBC']
\*   area_km2   the projected area of the row's geometry
\*   g_count    the number of glaciers that intersect the row's geometry
\*   g_density  their area / the row's area * 100 (0 when there is none)
\*   gap        the geometry has parts at the bottom and the top of its
\*              bounding box and nothing in the middle third
\* generate_hrus(.., small_km2=50, medium_km2=200, glacier_density_threshold=5)
small_km2 == 50
medium_km2 == 200
glacier_density_threshold == 5

\* _calculate_glacier_stats: a dict keyed by COD_SUBC, filled row by row, so
\* a later row with the same code overwrites an earlier one
calculate_glacier_stats(subs) ==
    [c \in {subs[i].cod : i \in 1..Len(subs)} |->
        LET last == CHOOSE i \in 1..Len(subs) :
                       /\ subs[i].cod = c
                       /\ \A j \in 1..Len(subs) : subs[j].cod = c => j <= i
        IN  [count |-> subs[last].g_count, density |-> subs[last].g_density]]

\* the decision of generate_hrus for one row
decide_n_div(area_km2, stats) ==
    IF area_km2 < small_km2 THEN 1
    ELSE IF area_km2 < medium_km2
         THEN IF stats.count > 0 THEN 2 ELSE 1
         ELSE IF stats.density > glacier_density_threshold THEN 3
              ELSE IF stats.count > 0 THEN 2 ELSE 2

band_names == [n \in {2, 3} |-> IF n = 2 THEN <<"Baja", "Alta">>
                                ELSE <<"Baja", "Media", "Alta">>]

\* geom.is_empty for band i of n: a geometry reaches the bottom and the top of
\* its own bounding box, so only the middle band of three can be empty
band_is_empty(sub, n_div, i) == sub.gap /\ n_div = 3 /\ i = 1

RECURSIVE bands_from(_, _, _, _)
bands_from(sub, n_div, start_id, i) ==
    IF i >= n_div THEN <<>>
    ELSE (IF band_is_empty(sub, n_div, i) THEN <<>>
          ELSE << [hru_id |-> start_id + i, subcuenca_cod |-> sub.cod,
                   elevation_band |-> band_names[n_div][i + 1],
                   n_divisions |-> n_div] >>)
         \o bands_from(sub, n_div, start_id, i + 1)

\* _divide_subcuenca(sub, n_div, start_id, reason)
divide_subcuenca(sub, n_div, start_id) ==
    IF n_div = 1
    THEN << [hru_id |-> start_id, subcuenca_cod |-> sub.cod,
             elevation_band |-> "Unica", n_divisions |-> 1] >>
    ELSE bands_from(sub, n_div, start_id, 0)

\* a plausible slip: the id advanced by one per sub-basin
next_hru_id_plus_one(hru_id, n_div) == hru_id + 1
\* hru_id += n_div
next_hru_id(hru_id, n_div) == hru_id + n_div

\* the loop of generate_hrus from row idx on: <<hrus, the n_div of each row>>
RECURSIVE hru_loop(_, _, _, _)
hru_loop(subs, stats, idx, hru_id) ==
    IF idx > Len(subs) THEN << <<>>, <<>> >>
    ELSE LET sub   == subs[idx]
             n_div == decide_n_div(sub.area_km2, stats[sub.cod])
             rest  == hru_loop(subs, stats, idx + 1,
                               next_hru_id(hru_id, n_div))
         IN  << divide_subcuenca(sub, n_div, hru_id) \o rest[1],
                <<n_div>> \o rest[2] >>

\* sub-basin rows tried
MaxSubs == 2
SubCodes == 1..2
SubAreas == {small_km2 - 1, small_km2, medium_km2 - 1, medium_km2}
SubGlaciers == { [g_count |-> 0, g_density |-> 0],
                 [g_count |-> 1, g_density |-> glacier_density_threshold],
                 [g_count |-> 2, g_density |-> glacier_density_threshold + 1] }
SubRows == {[cod |-> c, area_km2 |-> a, g_count |-> g.g_count,
             g_density |-> g.g_density, gap |-> p] :
               c \in SubCodes, a \in SubAreas, g \in SubGlaciers,
               p \in BOOLEAN}

HruInit == /\ hru_subs \in UNION {[1..n -> SubRows] : n \in 0..MaxSubs}
           /\ hru_pc = "ready"
           /\ hru_ndivs = <<>>
           /\ hrus = <<>>
HruIdle == /\ hru_subs = <<>>
           /\ hru_pc = "ready"
           /\ hru_ndivs = <<>>
           /\ hrus = <<>>

\* generate_hrus(_subcuencas_gdf, _glaciers_gdf)
GenerateHrus ==
    /\ hru_pc = "ready"
    /\ LET out == hru_loop(hru_subs, calculate_glacier_stats(hru_subs), 1, 0)
       IN  /\ hrus' = out[1]
           /\ hru_ndivs' = out[2]
    /\ hru_pc' = "done"
    /\ UNCHANGED <<hru_subs, classifyVars, monitorVars, calcVars, auxVars>>

\* _generate_grid_from_bounds: cols x rows cells, column by column, cell
\* (i, j) with grid_id i * rows + j
generate_grid_from_bounds(cols, rows) ==
    [k \in 1..(cols * rows) |->
        LET i == (k - 1) \div rows
            j == (k - 1) % rows
        IN  [grid_id |-> i * rows + j, cell |-> <<i, j>>]]

\* largest number of columns and of rows of the fallback grid tried
MaxGridSide == 3

\* the fallback of load_base_data without sub-basins: the grid, and then
\* self.grids_gdf['grid_id'] = range(len(self.grids_gdf))
GenerateGridFromBounds ==
    /\ hru_pc = "ready"
    /\ hru_subs = <<>>
    /\ \E cols \in 1..MaxGridSide, rows \in 1..MaxGridSide :
         LET grid == generate_grid_from_bounds(cols, rows)
         IN  /\ hrus' = [k \in 1..Len(grid) |->
                            [grid[k] EXCEPT !.grid_id = k - 1]]
             /\ hru_ndivs' = <<cols, rows>>
    /\ hru_pc' = "grid"
    /\ UNCHANGED <<hru_subs, classifyVars, monitorVars, calcVars, auxVars>>

-----------------------------------------------------------------------------
(* Tables *)

\* A table (pandas DataFrame) is a sequence of rows, a row a function from
\* column names to cells.  Numeric cells are integers in the units above;
\* text and boolean cells are strings ("True", "False").
TextColumns == {"risk_class", "risk_class_3d", "snow_recent", "flood_prone",
                "flood_description"}

\* the cell pandas puts where a row has no value: nan
Missing(col) == IF col \in TextColumns THEN "nan" ELSE NaN

\* Python's None, for an attribute that holds no table
None == << [none |-> TRUE] >>

Columns(df) == UNION {DOMAIN df[i] : i \in 1..Len(df)}

\* pd.DataFrame(list of dicts): the columns are the union of the keys, and a
\* dict without a key gets nan in that column
DataFrame(recs) ==
    [i \in 1..Len(recs) |->
        [c \in Columns(recs) |->
            IF c \in DOMAIN recs[i] THEN recs[i][c] ELSE Missing(c)]]

\* row.get(col, default): the default only when the column does not exist
RowGet(row, col, default) == IF col \in DOMAIN row THEN row[col] ELSE default

\* df[df['grid_id'] == gid]
Rows(df, gid) == SelectSeq(df, LAMBDA r : r.grid_id = gid)

\* df.drop(columns=cols)
DropColumns(df, cols) ==
    [i \in 1..Len(df) |-> [c \in DOMAIN df[i] \ cols |-> df[i][c]]]

\* left.merge(right, on='grid_id', how='left'): one output row per matching
\* right row, and one row with nan in right's columns when nothing matches.
\* (The callers drop colliding columns first, so no column is in both.)
\* a plausible slip: how='inner', which drops the rows without a match
RECURSIVE MergeInner(_, _, _)
MergeInner(left, right, i) ==
    IF i > Len(left) THEN <<>>
    ELSE LET l == left[i]
             m == Rows(right, l.grid_id)
             cols == DOMAIN l \cup Columns(right)
         IN  [j \in 1..Len(m) |->
                [c \in cols |-> IF c \in DOMAIN l THEN l[c] ELSE m[j][c]]]
             \o MergeInner(left, right, i + 1)

RECURSIVE MergeFrom(_, _, _)
MergeFrom(left, right, i) ==
    IF i > Len(left) THEN <<>>
    ELSE LET l == left[i]
             m == Rows(right, l.grid_id)
             cols == DOMAIN l \cup Columns(right)
         IN  (IF m = <<>>
              THEN << [c \in cols |-> IF c \in DOMAIN l THEN l[c]
                                      ELSE Missing(c)] >>
              ELSE [j \in 1..Len(m) |->
                      [c \in cols |-> IF c \in DOMAIN l THEN l[c]
                                      ELSE m[j][c]]])
             \o MergeFrom(left, right, i + 1)
Merge(left, right) == MergeFrom(left, right, 1)

\* "df is not None and not df.empty"
HasRows(df) == df # None /\ df # <<>>

\* the flow of run_full_analysis / load_evaqua_analysis for one right table:
\*   if df is not None and not df.empty:
\*       drop from results the columns df also has (melt_df, proj_df only;
\*       the other tables share no column with results but grid_id)
\*       results = results.merge(df, on='grid_id', how='left')
MergeInto(results, df) ==
    IF HasRows(df)
    THEN Merge(DropColumns(results, Columns(df) \ {"grid_id"}), df)
    ELSE results

-----------------------------------------------------------------------------
(* EVAQUACalculator: the model chain *)

DEGREE_DAY_FACTOR_ICE  == 8
DEGREE_DAY_FACTOR_SNOW == 4
BASE_TEMP_THRESHOLD    == 0
\* lapse_rate = -0.0065 C/m, in 1/TempDen C per m
lapse_rate == -13
\* RUNOFF_COEFFICIENTS, in twentieths
RUNOFF_COEFFICIENTS == [muy_baja |-> 4, baja |-> 7, media |-> 10, alta |-> 14]

Sub(a, b) == IF a = NaN \/ b = NaN THEN NaN ELSE a - b
PyBool(b) == IF b THEN "True" ELSE "False"

\* a plausible slip: the snow factor applied when there is NO recent snow
melt_rate_snow_inverted(temp, snow_24h) ==
    LET temp_excess == PyMax(0, Sub(temp, BASE_TEMP_THRESHOLD * TempDen))
    IN  IF Gt(snow_24h, 0) THEN Mul(DEGREE_DAY_FACTOR_ICE, temp_excess)
        ELSE Mul(DEGREE_DAY_FACTOR_SNOW, temp_excess)

\* temp_excess = max(0, temp - BASE_TEMP_THRESHOLD)
\* melt_rate = DEGREE_DAY_FACTOR_ICE * temp_excess
\* if climate['snow_24h'] > 0: melt_rate = DEGREE_DAY_FACTOR_SNOW * temp_excess
melt_rate_of(temp, snow_24h) ==
    LET temp_excess == PyMax(0, Sub(temp, BASE_TEMP_THRESHOLD * TempDen))
    IN  IF Gt(snow_24h, 0) THEN Mul(DEGREE_DAY_FACTOR_SNOW, temp_excess)
        ELSE Mul(DEGREE_DAY_FACTOR_ICE, temp_excess)

\* the elevation of the unit that calculate_melt looks up
hru_elevation(grids, topo, grid_id) ==
    LET grid_row == Rows(grids, grid_id)
    IN  IF "elevation_mean" \in Columns(grids)
        THEN grid_row[1].elevation_mean
        ELSE IF HasRows(topo)
             THEN LET topo_match == Rows(topo, grid_id)
                  IN  IF topo_match # <<>> THEN topo_match[1].elevation_mean
                      ELSE 0
             ELSE 0

\* the temperature after the lapse-rate correction
adjusted_temp(climate, hru_elev) ==
    LET model_elev == RowGet(climate, "elevation", 0)
    IN  IF Gt(hru_elev, 0)
        THEN Add(climate.temp_current,
                 Mul(Sub(hru_elev, model_elev), lapse_rate))
        ELSE climate.temp_current

\* one iteration of the loop of calculate_melt
melt_record(grids, topo, climate) ==
    LET grid_row == Rows(grids, climate.grid_id)
        temp == adjusted_temp(climate,
                              hru_elevation(grids, topo, climate.grid_id))
    IN  [grid_id |-> climate.grid_id,
         melt_rate_mm_day |-> melt_rate_of(temp, climate.snow_24h),
         temp_for_melt |-> temp,
         glacier_area_km2 |->
             IF grid_row # <<>>
             THEN RowGet(grid_row[1], "glacier_area_km2", 0) ELSE 0,
         snow_recent |-> PyBool(Gt(climate.snow_24h, 0))]

\* calculate_melt(): None without climate data, else one row per climate row
calculate_melt(grids, topo, climate) ==
    IF climate = None \/ Len(climate) = 0 THEN None
    ELSE DataFrame([i \in 1..Len(climate) |->
                       melt_record(grids, topo, climate[i])])

\* a plausible slip: the slope classes tested with <= instead of <
runoff_coeff_inclusive(topo_row) ==
    IF topo_row # <<>>
    THEN LET slope == topo_row[1].slope_mean
         IN  IF Le(slope, 5) THEN RUNOFF_COEFFICIENTS.muy_baja
             ELSE IF Le(slope, 10) THEN RUNOFF_COEFFICIENTS.baja
             ELSE IF Le(slope, 20) THEN RUNOFF_COEFFICIENTS.media
             ELSE RUNOFF_COEFFICIENTS.alta
    ELSE RUNOFF_COEFFICIENTS.media

\* the coefficient calculate_runoff picks from the unit's topography rows
runoff_coeff_of(topo_row) ==
    IF topo_row # <<>>
    THEN LET slope == topo_row[1].slope_mean
         IN  IF Lt(slope, 5) THEN RUNOFF_COEFFICIENTS.muy_baja
             ELSE IF Lt(slope, 10) THEN RUNOFF_COEFFICIENTS.baja
             ELSE IF Lt(slope, 20) THEN RUNOFF_COEFFICIENTS.media
             ELSE RUNOFF_COEFFICIENTS.alta
    ELSE RUNOFF_COEFFICIENTS.media

\* the unit's area column, or the area of its geometry when there is none
grid_area_km2(grid) ==
    LET area_km2 == IF "area_km2" \in DOMAIN grid THEN grid.area_km2
                    ELSE grid.geometry
    IN  IF Le(area_km2, 0) THEN 1 ELSE area_km2

\* one iteration of the loop of calculate_runoff, for a unit with climate_row.
\* intensity = precip_24h / 24: PrecipUnit/24 mm/h = 3 halves of a mm/h.
\* runoff_m3s = runoff_coeff * intensity * area_km2 * 0.278, in 3/RunoffDen:
\* (c/20) * (i/2) * A * 0.278 = (139 c i A / 3) * 3/20000
runoff_record(grid, topo, climate_row) ==
    LET topo_row == IF HasRows(topo) /\ "grid_id" \in Columns(topo)
                    THEN Rows(topo, grid.grid_id) ELSE <<>>
        runoff_coeff == runoff_coeff_of(topo_row)
        precip_24h == climate_row[1].precip_24h
        intensity == IF Gt(precip_24h, 0) THEN 3 * precip_24h ELSE 0
    IN  [grid_id |-> grid.grid_id,
         runoff_m3s |->
             (139 * runoff_coeff * grid_area_km2(grid) * intensity) \div 3,
         runoff_coeff |-> runoff_coeff,
         slope_percent |-> IF topo_row # <<>> THEN topo_row[1].slope_mean
                           ELSE 0,
         precip_intensity_mm_h |-> intensity]

\* self.climate_data[self.climate_data['grid_id'] == ..] raises when the
\* attribute is None (TypeError) or a table without columns (KeyError)
lookup_raises(grids, df) ==
    Len(grids) > 0 /\ (df = None \/ "grid_id" \notin Columns(df))

RECURSIVE runoff_loop(_, _, _, _)
runoff_loop(grids, topo, climate, i) ==
    IF i > Len(grids) THEN <<>>
    ELSE LET climate_row == Rows(climate, grids[i].grid_id)
         IN  (IF climate_row = <<>> THEN <<>>
              ELSE <<runoff_record(grids[i], topo, climate_row)>>)
             \o runoff_loop(grids, topo, climate, i + 1)

\* calculate_runoff(melt_df)
calculate_runoff(grids, topo, climate) ==
    DataFrame(runoff_loop(grids, topo, climate, 1))

\* a plausible slip: the normalised value left without its cap
Component_uncapped(x) == x

\* min(1.0, x) in 1/CompDen
Component(x) == PyMin(CompDen, x)

\* a plausible slip: the two weight sets swapped
risk_weights_swapped(melt_val) ==
    IF Lt(melt_val, TempDen \div 10)
    THEN [melt |-> 8, runoff |-> 8, precip |-> 4]
    ELSE [melt |-> 1, runoff |-> 11, precip |-> 8]

\* the weights of calculate_flood_risk, in twentieths; 0.1 mm/day = TempDen/10
risk_weights(melt_val) ==
    IF Lt(melt_val, TempDen \div 10)
    THEN [melt |-> 1, runoff |-> 11, precip |-> 8]
    ELSE [melt |-> 8, runoff |-> 8, precip |-> 4]

\* one iteration of the loop of calculate_flood_risk.  melt_val / 50,
\* runoff_val / 1000 and precip_val / 300 in 1/CompDen are 400 melt_val,
\* 6 runoff_val and 4800000 precip_val.
risk_record(grid_id, melt_row, runoff_row, climate_row) ==
    LET melt_val == IF melt_row # <<>> THEN melt_row[1].melt_rate_mm_day ELSE 0
        runoff_val == IF runoff_row # <<>> THEN runoff_row[1].runoff_m3s ELSE 0
        precip_val == climate_row[1].precip_72h
        w == risk_weights(melt_val)
        melt_component == Component(Mul(400, melt_val))
        runoff_component == Component(Mul(6, runoff_val))
        precip_component == Component(Mul(4800000, precip_val))
        risk_score == Add(Add(Mul(w.melt, melt_component),
                              Mul(w.runoff, runoff_component)),
                          Mul(w.precip, precip_component))
    IN  [grid_id |-> grid_id,
         risk_score |-> risk_score,
         risk_class |-> classify_risk(risk_score),
         melt_component |-> melt_component,
         runoff_component |-> runoff_component,
         precip_component |-> precip_component]

RECURSIVE risk_loop(_, _, _, _, _)
risk_loop(grids, climate, melt, runoff, i) ==
    IF i > Len(grids) THEN <<>>
    ELSE LET gid == grids[i].grid_id
             climate_row == Rows(climate, gid)
         IN  (IF climate_row = <<>> THEN <<>>
              ELSE <<risk_record(gid, Rows(melt, gid), Rows(runoff, gid),
                                 climate_row)>>)
             \o risk_loop(grids, climate, melt, runoff, i + 1)

\* a plausible slip: a unit without a climate record given a row of zeros
calculate_flood_risk_zero_filled(grids, climate, melt, runoff) ==
    DataFrame([i \in 1..Len(grids) |->
        LET gid == grids[i].grid_id
            climate_row == Rows(climate, gid)
        IN  IF climate_row = <<>>
            THEN [grid_id |-> gid, risk_score |-> 0,
                  risk_class |-> classify_risk(0), melt_component |-> 0,
                  runoff_component |-> 0, precip_component |-> 0]
            ELSE risk_record(gid, Rows(melt, gid), Rows(runoff, gid),
                             climate_row)])

\* calculate_flood_risk(melt_df, runoff_df)
calculate_flood_risk(grids, climate, melt, runoff) ==
    DataFrame(risk_loop(grids, climate, melt, runoff, 1))

\* a plausible slip: the projection normalises the melt by the one-day 50 mm
proj_melt_component_1d(melt_3d_mm) == Component(Mul(400, melt_3d_mm))

\* min(1.0, melt_3d_mm / 150) in 1/CompDen (melt_3d_mm is a multiple of 3)
proj_melt_component(melt_3d_mm) ==
    Component(IF melt_3d_mm = NaN THEN NaN ELSE (400 * melt_3d_mm) \div 3)

\* one iteration of the loop of calculate_projected_risk_3d.  precip_3d_mm
\* is in PrecipUnit mm, the water total in 1/TempDen mm; runoff_m3s / 1200
\* in 1/CompDen is 5 runoff_m3s; the weights 0.35, 0.35, 0.30 in twentieths.
proj_record(gid, melt_row, runoff_row, climate_row) ==
    LET melt_rate_day == IF melt_row # <<>> THEN melt_row[1].melt_rate_mm_day
                         ELSE 0
        runoff_m3s == IF runoff_row # <<>> THEN runoff_row[1].runoff_m3s ELSE 0
        precip_24h == climate_row[1].precip_24h
        melt_3d_mm == Mul(melt_rate_day, 3)
        precip_3d_mm == Mul(precip_24h, 3)
        melt_comp_3d == proj_melt_component(melt_3d_mm)
        precip_comp_3d == Component(Mul(4800000, precip_3d_mm))
        runoff_comp_3d == Component(Mul(5, runoff_m3s))
        risk_score_3d == Add(Add(Mul(7, melt_comp_3d), Mul(7, runoff_comp_3d)),
                             Mul(6, precip_comp_3d))
    IN  [grid_id |-> gid,
         melt_3d_mm |-> melt_3d_mm,
         precip_3d_mm |-> precip_3d_mm,
         water_total_3d_mm |->
             Add(melt_3d_mm, Mul(PrecipUnit * TempDen, precip_3d_mm)),
         risk_score_3d |-> risk_score_3d,
         risk_class_3d |-> classify_risk(risk_score_3d)]

RECURSIVE proj_loop(_, _, _, _, _)
proj_loop(grids, climate, melt, runoff, i) ==
    IF i > Len(grids) THEN <<>>
    ELSE LET gid == grids[i].grid_id
             climate_row == Rows(climate, gid)
         IN  (IF climate_row = <<>> THEN <<>>
              ELSE <<proj_record(gid, Rows(melt, gid), Rows(runoff, gid),
                                 climate_row)>>)
             \o proj_loop(grids, climate, melt, runoff, i + 1)

\* calculate_projected_risk_3d(melt_df, runoff_df)
calculate_projected_risk_3d(grids, climate, melt, runoff) ==
    DataFrame(proj_loop(grids, climate, melt, runoff, 1))

\* a plausible slip: the general-risk rule tested before the runoff rules
flood_rule_risk_first(row) ==
    LET elev_mean == RowGet(row, "elevation_mean", 0)
        slope == RowGet(row, "slope_mean", 0)
        runoff == RowGet(row, "runoff_m3s", 0)
        risk_score == RowGet(row, "risk_score", 0)
    IN  IF Gt(risk_score, ScoreDen \div 2) THEN 3
        ELSE IF Lt(elev_mean, 500) /\ Lt(slope, 5)
                /\ Gt(Mul(3, runoff), 100 * RunoffDen) THEN 1
        ELSE IF Lt(elev_mean, 800) /\ Gt(Mul(3, runoff), 200 * RunoffDen)
             THEN 2
        ELSE 0

\* the rule of _identify_flood_zones that fires for a row (0: none).
\* runoff > 100 m3/s is 3 runoff > 100 RunoffDen in the runoff unit.
flood_rule(row) ==
    LET elev_mean == RowGet(row, "elevation_mean", 0)
        slope == RowGet(row, "slope_mean", 0)
        runoff == RowGet(row, "runoff_m3s", 0)
        risk_score == RowGet(row, "risk_score", 0)
    IN  IF Lt(elev_mean, 500) /\ Lt(slope, 5)
           /\ Gt(Mul(3, runoff), 100 * RunoffDen) THEN 1
        ELSE IF Lt(elev_mean, 800) /\ Gt(Mul(3, runoff), 200 * RunoffDen)
             THEN 2
        ELSE IF Gt(risk_score, ScoreDen \div 2) THEN 3
        ELSE 0

flood_descriptions ==
    << "Alto riesgo - Zona baja con alta escorrentia",
       "Riesgo medio - Elevacion moderada con escorrentia significativa",
       "Atencion - Alto indice de riesgo general" >>

flood_record(row) ==
    LET rule == flood_rule(row)
    IN  [grid_id |-> row.grid_id,
         flood_prone |-> PyBool(rule # 0),
         flood_description |-> IF rule = 0 THEN "Bajo riesgo"
                               ELSE flood_descriptions[rule]]

\* _identify_flood_zones(): the new value of self.results_gdf
identify_flood_zones(results) ==
    IF results = None \/ results = <<>> THEN results
    ELSE Merge(results,
               DataFrame([i \in 1..Len(results) |-> flood_record(results[i])]))

\* the merges of run_full_analysis (l.1126-1153) and of load_evaqua_analysis
\* (app.py l.88-113): grids, then climate, topography, melt, runoff, risk
combine_results(grids, climate, topo, melt, runoff, risk) ==
    LET r0 == grids
        r1 == IF HasRows(climate) /\ "grid_id" \in Columns(climate)
              THEN Merge(r0, climate) ELSE r0
        r2 == IF HasRows(topo) /\ "grid_id" \in Columns(topo)
              THEN Merge(r1, topo) ELSE r1
        r3 == MergeInto(r2, melt)
        r4 == IF HasRows(runoff) THEN Merge(r3, runoff) ELSE r3
    IN  IF HasRows(risk) THEN Merge(r4, risk) ELSE r4

-----------------------------------------------------------------------------
(* EVAQUACalculator: state and steps *)

\* CalculateMelt .. IdentifyFloodZones are the statements of
\* run_full_analysis from step 4 on (and of load_evaqua_analysis, which
\* repeats them); an exception leaves the flow at pc = "raised".

\* calculate_melt().  With climate records at hand it first makes sure that
\* glaciers_gdf has a grid_id column: if not, it repeats the spatial join and
\* the reprojection of load_base_data, which succeed or raise as they did
\* there.
CalculateMelt ==
    /\ pc = "melt"
    /\ \/ /\ HasRows(climate_data) => glaciers_gdf = "joined"
          /\ melt_df' = calculate_melt(grids_gdf, topo_data, climate_data)
          /\ pc' = "runoff"
          /\ UNCHANGED glaciers_gdf
       \/ /\ HasRows(climate_data) /\ glaciers_gdf = "raw"
          /\ \/ /\ melt_df' = calculate_melt(grids_gdf, topo_data, climate_data)
                /\ glaciers_gdf' = "joined"
                /\ pc' = "runoff"
             \/ /\ pc' = "raised"
                /\ UNCHANGED <<melt_df, glaciers_gdf>>
    /\ UNCHANGED <<nonCalcVars, caller, load_result, last_update>>
    /\ UNCHANGED <<grids_gdf, topo_data, climate_data, runoff_df, risk_df,
                   proj_df, results_gdf>>

CalculateRunoff ==
    /\ pc = "runoff"
    /\ IF lookup_raises(grids_gdf, climate_data)
       THEN /\ pc' = "raised"
            /\ UNCHANGED runoff_df
       ELSE /\ runoff_df' = calculate_runoff(grids_gdf, topo_data, climate_data)
            /\ pc' = "risk"
    /\ UNCHANGED <<nonCalcVars, caller, glaciers_gdf, load_result, last_update>>
    /\ UNCHANGED <<grids_gdf, topo_data, climate_data, melt_df, risk_df,
                   proj_df, results_gdf>>

CalculateFloodRisk ==
    /\ pc = "risk"
    /\ IF lookup_raises(grids_gdf, melt_df) \/ lookup_raises(grids_gdf, runoff_df)
       THEN /\ pc' = "raised"
            /\ UNCHANGED risk_df
       ELSE /\ risk_df' = calculate_flood_risk(grids_gdf, climate_data,
                                               melt_df, runoff_df)
            /\ pc' = "combine"
    /\ UNCHANGED <<nonCalcVars, caller, glaciers_gdf, load_result, last_update>>
    /\ UNCHANGED <<grids_gdf, topo_data, climate_data, melt_df, runoff_df,
                   proj_df, results_gdf>>

CombineResults ==
    /\ pc = "combine"
    /\ results_gdf' = combine_results(grids_gdf, climate_data, topo_data,
                                      melt_df, runoff_df, risk_df)
    /\ pc' = "proj"
    /\ UNCHANGED <<nonCalcVars, caller, glaciers_gdf, load_result, last_update>>
    /\ UNCHANGED <<grids_gdf, topo_data, climate_data, melt_df, runoff_df,
                   risk_df, proj_df>>

ProjectRisk3d ==
    /\ pc = "proj"
    /\ IF lookup_raises(grids_gdf, melt_df) \/ lookup_raises(grids_gdf, runoff_df)
       THEN /\ pc' = "raised"
            /\ UNCHANGED <<proj_df, results_gdf>>
       ELSE LET proj == calculate_projected_risk_3d(grids_gdf, climate_data,
                                                    melt_df, runoff_df)
            IN  /\ proj_df' = proj
                /\ results_gdf' = MergeInto(results_gdf, proj)
                /\ pc' = "flood"
    /\ UNCHANGED <<nonCalcVars, caller, glaciers_gdf, load_result, last_update>>
    /\ UNCHANGED <<grids_gdf, topo_data, climate_data, melt_df, runoff_df,
                   risk_df>>

\* _identify_flood_zones(), the last stage; run_full_analysis then sets
\* last_update = datetime.now() and returns the table
IdentifyFloodZones ==
    /\ pc = "flood"
    /\ results_gdf' = identify_flood_zones(results_gdf)
    /\ last_update' = IF caller = "run_full_analysis" THEN last_update + 1
                      ELSE last_update
    /\ pc' = "done"
    /\ UNCHANGED <<nonCalcVars, caller, glaciers_gdf, load_result>>
    /\ UNCHANGED <<grids_gdf, topo_data, climate_data, melt_df, runoff_df,
                   risk_df, proj_df>>

Stages == \/ CalculateMelt
          \/ CalculateRunoff
          \/ CalculateFloodRisk
          \/ CombineResults
          \/ ProjectRisk3d
          \/ IdentifyFloodZones

-----------------------------------------------------------------------------
(* The model chain on tables set by the caller *)

\* Units tried.  A unit is [area, glacier, topo, climate]: its area, its
\* glacier area, its topography row and its climate record (each a sequence
\* of none or one, without the grid_id).  The first unit ranges over every
\* combination of the values next to the thresholds of the code; the others
\* over three kinds: without data, moderate, and extreme without 'elevation'.
MaxUnits == 2

FxAreas == {0, 500, 2000}
FxTopo ==
    {<<>>}
    \cup {<<[elevation_mean |-> e, slope_mean |-> s]>> :
             e \in {0, 499, 500, 799, 800}, s \in {4, 5}}
    \cup {<<[elevation_mean |-> 499, slope_mean |-> s]>> : s \in {9, 10, 19, 20, 21}}
\* temperatures -2, 0.012, 0.0125, 0.025, 3 and 7 C
FxTemps == {0 - 2 * TempDen, 24, 25, 50, 3 * TempDen, 7 * TempDen}
\* <<precip_24h, precip_72h>> in PrecipUnit mm: 0/0, 72/72, 72/288, 108/324
FxPrecip == {<<0, 0>>, <<2, 2>>, <<2, 8>>, <<3, 9>>}
FxClimate ==
    {<<>>}
    \cup {<<[temp_current |-> t, snow_24h |-> s, precip_24h |-> p[1],
             precip_72h |-> p[2], elevation |-> e]>> :
             t \in FxTemps, s \in {0, 1}, p \in FxPrecip, e \in {0, 500}}
    \cup {<<[temp_current |-> t, snow_24h |-> s, precip_24h |-> p[1],
             precip_72h |-> p[2]]>> :
             t \in FxTemps, s \in {0, 1}, p \in FxPrecip}
FirstUnits ==
    {[area |-> a, glacier |-> a \div 100, topo |-> t, climate |-> c] :
        a \in FxAreas, t \in FxTopo, c \in FxClimate}
OtherUnits ==
    { [area |-> 500, glacier |-> 0, topo |-> <<>>, climate |-> <<>>],
      [area |-> 500, glacier |-> 5,
       topo |-> <<[elevation_mean |-> 600, slope_mean |-> 9]>>,
       climate |-> <<[temp_current |-> 3 * TempDen, snow_24h |-> 0,
                      precip_24h |-> 1, precip_72h |-> 2,
                      elevation |-> 500]>>],
      [area |-> 2000, glacier |-> 20,
       topo |-> <<[elevation_mean |-> 499, slope_mean |-> 4]>>,
       climate |-> <<[temp_current |-> 7 * TempDen, snow_24h |-> 1,
                      precip_24h |-> 3, precip_72h |-> 9]>>] }
UnitLists(n) ==
    {[i \in 1..n |-> IF i = 1 THEN f ELSE o[i]] :
        f \in FirstUnits, o \in [2..n -> OtherUnits]}

\* the rows of one kind of all units, each with its grid_id (0, 1, ..)
RECURSIVE UnitRows(_, _, _)
UnitRows(u, kind, i) ==
    IF i > Len(u) THEN <<>>
    ELSE [j \in 1..Len(u[i][kind]) |->
             u[i][kind][j] @@ [grid_id |-> i - 1]]
         \o UnitRows(u, kind, i + 1)

GridsOf(u) ==
    [i \in 1..Len(u) |-> [grid_id |-> i - 1, geometry |-> u[i].area,
                          area_km2 |-> u[i].area,
                          glacier_area_km2 |-> u[i].glacier]]

\* the tables of a calculator before calculate_melt
StagesInit ==
    /\ \E n \in 0..MaxUnits : \E u \in (IF n = 0 THEN {<<>>} ELSE UnitLists(n)) :
          /\ grids_gdf = GridsOf(u)
          /\ topo_data = DataFrame(UnitRows(u, "topo", 1))
          /\ climate_data = DataFrame(UnitRows(u, "climate", 1))
    /\ melt_df = None
    /\ runoff_df = None
    /\ risk_df = None
    /\ proj_df = None
    /\ results_gdf = None
    /\ pc = "melt"
    /\ caller = "run_full_analysis"
    /\ glaciers_gdf = "joined"
    /\ load_result = "True"
    /\ last_update = 0

\* __init__: every table None; _identify_flood_zones is the next call
FreshInit ==
    /\ grids_gdf = None
    /\ topo_data = None
    /\ climate_data = None
    /\ melt_df = None
    /\ runoff_df = None
    /\ risk_df = None
    /\ proj_df = None
    /\ results_gdf = None
    /\ pc = "flood"
    /\ caller = "run_full_analysis"
    /\ glaciers_gdf = "none"
    /\ load_result = "none"
    /\ last_update = 0

-----------------------------------------------------------------------------
(* EVAQUACalculator: load, topography and climate *)

\* Base tables tried: up to MaxGrids units, built by the HRU generator (ids
\* 0, 1, .., or with the id of a dropped empty band missing; columns
\* area_km2 and glacier_area_km2) or by the fallback grid (no area column).
MaxGrids == 3
\* stand-ins for the batch sizes 100 (elevation points) and 50 (weather
\* locations), so that a run over MaxGrids units takes more than one batch
TopoBatchSize == 2
ClimateBatchSize == 2

BaseKinds == {"hru", "hru_gap", "grid"}
BaseRow(kind, i) ==
    LET gid == IF kind = "hru_gap" /\ i >= 2 THEN i ELSE i - 1
        area == 500 + 1500 * (i % 2)
    IN  IF kind = "grid"
        THEN [grid_id |-> gid, geometry |-> 900]
        ELSE [grid_id |-> gid, geometry |-> area, area_km2 |-> area,
              glacier_area_km2 |-> 20 * (i % 2)]
BaseTables ==
    {[i \in 1..n |-> BaseRow(kind, i)] : n \in 0..MaxGrids, kind \in BaseKinds}

\* self.grids_gdf['glacier_area_km2'] = ...fillna(0) after the glacier join
with_glacier_area(grids) ==
    [i \in 1..Len(grids) |->
        IF "glacier_area_km2" \in DOMAIN grids[i] THEN grids[i]
        ELSE grids[i] @@ [glacier_area_km2 |-> 0]]

\* what the caller does with the result of load_base_data:
\* run_full_analysis returns None when it is False ("done"); the dashboard's
\* load_evaqua_analysis does not look at it and calls the next stage
after_load_unchecked(flow, result) == "topo"
after_load(flow, result) ==
    IF flow = "run_full_analysis" /\ result = "False" THEN "done" ELSE "topo"

\* load_base_data: the whole body runs in a try block, so an exception
\* anywhere returns False.  It may strike before the units are assigned
\* (nothing of the calculator changes), or after they are, in the spatial
\* join and the area computation (the units are the new ones, still without
\* the joined glacier areas, and glaciers_gdf is as loaded); otherwise the
\* method returns True.
LoadBaseData ==
    /\ pc = "load"
    /\ \/ /\ load_result' = "False"
          /\ UNCHANGED <<grids_gdf, glaciers_gdf>>
       \/ \E g \in BaseTables :
            /\ load_result' = "False"
            /\ grids_gdf' = g
            /\ glaciers_gdf' = "raw"
       \/ \E g \in BaseTables :
            /\ load_result' = "True"
            /\ grids_gdf' = with_glacier_area(g)
            /\ glaciers_gdf' = "joined"
    /\ pc' = after_load(caller, load_result')
    /\ UNCHANGED <<topo_data, climate_data, melt_df, runoff_df, risk_df,
                   proj_df, results_gdf, caller, last_update>>
    /\ UNCHANGED nonCalcVars

Min(a, b) == IF a <= b THEN a ELSE b

\* elevations the API may report for a point
ElevValues == {400, 900}
\* _fetch_elevation_batch_optimized, one batch of k points: status 200 and
\* "OK" gives one elevation per result returned (k of them, or fewer);
\* another status or an exception gives k zeros
ElevationBatch(k) ==
    [1..k -> ElevValues]
    \cup (IF k > 0 THEN [1..(k - 1) -> ElevValues] ELSE {})
    \cup {[i \in 1..k |-> 0]}
\* .. all batches of n points, concatenated
RECURSIVE ElevationLists(_)
ElevationLists(n) ==
    IF n = 0 THEN {<<>>}
    ELSE LET k == Min(n, TopoBatchSize)
         IN  {b \o rest : b \in ElevationBatch(k),
                          rest \in ElevationLists(n - k)}

\* step 3 of get_topography_for_grids: unit i (one sample point) takes
\* all_elevations[i-1:i] and gets a row when that slice has one element;
\* with one point the slope is 0
topo_rows(grids, all_elevations) ==
    [i \in 1..Min(Len(grids), Len(all_elevations)) |->
        [grid_id |-> grids[i].grid_id,
         elevation_mean |-> all_elevations[i],
         slope_mean |-> 0]]

\* get_topography_for_grids()
GetTopography ==
    /\ pc = "topo"
    /\ IF grids_gdf = None
       THEN /\ pc' = "raised"
            /\ UNCHANGED topo_data
       ELSE /\ \E all_elevations \in ElevationLists(Len(grids_gdf)) :
                 topo_data' = DataFrame(topo_rows(grids_gdf, all_elevations))
            /\ pc' = "climate"
    /\ UNCHANGED <<grids_gdf, climate_data, melt_df, runoff_df, risk_df,
                   proj_df, results_gdf, caller, glaciers_gdf, load_result,
                   last_update>>
    /\ UNCHANGED nonCalcVars

\* _process_meteo_json: a record with the model elevation, or
\* _empty_climate_dict() (zeros, no 'elevation') when there is no hourly data
MeteoResults ==
    { [temp_current |-> 3 * TempDen, snow_24h |-> 0, precip_24h |-> 2,
       precip_72h |-> 8, elevation |-> 500],
      [temp_current |-> 0, snow_24h |-> 0, precip_24h |-> 0,
       precip_72h |-> 0] }
\* _fetch_openmeteo_batch for k locations: one result per object of the
\* answer (k of them, one fewer or one more); an exception gives k empty
\* records, which is one of the lists of length k
MeteoBatch(k) ==
    UNION {[1..len -> MeteoResults] : len \in {j \in {k - 1, k, k + 1} : j >= 0}}
\* .. the answers to all batches of n locations, in order
RECURSIVE MeteoAnswers(_)
MeteoAnswers(n) ==
    IF n = 0 THEN {<<>>}
    ELSE LET k == Min(n, ClimateBatchSize)
         IN  {<<b>> \o rest : b \in MeteoBatch(k), rest \in MeteoAnswers(n - k)}

\* the loop of get_climate_data from batch b on.  "for j, result in
\* enumerate(batch_results): result['grid_id'] = batch_ids[j]" raises
\* IndexError when the answer is longer than the batch.
RECURSIVE climate_rows(_, _, _)
climate_rows(grids, answers, b) ==
    IF b > Len(answers) THEN <<>>
    ELSE LET first == (b - 1) * ClimateBatchSize
         IN  [j \in 1..Len(answers[b]) |->
                 answers[b][j] @@ [grid_id |-> grids[first + j].grid_id]]
             \o climate_rows(grids, answers, b + 1)
climate_raises(grids, answers) ==
    \E b \in 1..Len(answers) :
        Len(answers[b])
            > Min(ClimateBatchSize, Len(grids) - (b - 1) * ClimateBatchSize)

\* get_climate_data()
GetClimate ==
    /\ pc = "climate"
    /\ \E answers \in MeteoAnswers(Len(grids_gdf)) :
         IF climate_raises(grids_gdf, answers)
         THEN /\ pc' = "raised"
              /\ UNCHANGED climate_data
         ELSE /\ climate_data' = DataFrame(climate_rows(grids_gdf, answers, 1))
              /\ pc' = "melt"
    /\ UNCHANGED <<grids_gdf, topo_data, melt_df, runoff_df, risk_df, proj_df,
                   results_gdf, caller, glaciers_gdf, load_result,
                   last_update>>
    /\ UNCHANGED nonCalcVars

\* The tables an earlier, complete run over one unit has left on the
\* calculator.
PriorGrids == with_glacier_area(<<BaseRow("grid", 1)>>)
PriorTopo == DataFrame(topo_rows(PriorGrids, <<400>>))
PriorClimate ==
    DataFrame(climate_rows(PriorGrids,
        << <<CHOOSE r \in MeteoResults : "elevation" \in DOMAIN r>> >>, 1))
PriorResults ==
    LET melt == calculate_melt(PriorGrids, PriorTopo, PriorClimate)
        runoff == calculate_runoff(PriorGrids, PriorTopo, PriorClimate)
        risk == calculate_flood_risk(PriorGrids, PriorClimate, melt, runoff)
        merged == combine_results(PriorGrids, PriorClimate, PriorTopo,
                                  melt, runoff, risk)
        proj == calculate_projected_risk_3d(PriorGrids, PriorClimate,
                                            melt, runoff)
    IN  identify_flood_zones(MergeInto(merged, proj))

\* a calculator about to be driven by run_full_analysis or by the
\* dashboard's load_evaqua_analysis: fresh from __init__, or as an earlier
\* run_full_analysis has left it
PipelineInit ==
    /\ \/ /\ grids_gdf = None
          /\ topo_data = None
          /\ climate_data = None
          /\ results_gdf = None
          /\ glaciers_gdf = "none"
          /\ last_update = 0
       \/ /\ grids_gdf = PriorGrids
          /\ topo_data = PriorTopo
          /\ climate_data = PriorClimate
          /\ results_gdf = PriorResults
          /\ glaciers_gdf = "joined"
          /\ last_update = 1
    /\ melt_df = None
    /\ runoff_df = None
    /\ risk_df = None
    /\ proj_df = None
    /\ pc = "load"
    /\ load_result = "none"
    /\ caller \in {"run_full_analysis", "load_evaqua_analysis"}

-----------------------------------------------------------------------------
(* ai_alerts: the AI bulletin *)

\* risk scores are in thousandths here: 0.4 is 400, 0.6 is 600
AiPassLimit == 20
AiListLimit == 10

Ge(a, b) == Le(b, a)

\* the positions of rows, the highest score first and nan last
\* (sort_values('risk_score', ascending=False)); the scores tried are
\* distinct, rows without a score keep their order
RECURSIVE sort_desc(_)
sort_desc(rows) ==
    IF rows = <<>> THEN <<>>
    ELSE LET numeric == {i \in 1..Len(rows) : IsNum(rows[i].risk_score)}
             top == IF numeric = {} THEN 1
                    ELSE CHOOSE i \in numeric : \A j \in numeric :
                            \/ rows[j].risk_score < rows[i].risk_score
                            \/ rows[j].risk_score = rows[i].risk_score /\ i <= j
             rest == [k \in 1..(Len(rows) - 1) |->
                        IF k < top THEN rows[k] ELSE rows[k + 1]]
         IN  <<rows[top]>> \o sort_desc(rest)

head(rows, n) == SubSeq(rows, 1, Min(n, Len(rows)))

\* df_export[cols_to_keep].to_json(orient='records') read back by
\* pd.read_json: the kept columns of each row, nan as null and back
ExportColumns == {"grid_id", "risk_score"}
to_records(rows) ==
    [i \in 1..Len(rows) |-> [c \in ExportColumns |-> rows[i][c]]]

\* generate_ai_report up to the prompt: the statistics and the units listed
ai_report_prompt(data) ==
    LET count(P(_)) == Cardinality({i \in 1..Len(data) : P(data[i].risk_score)})
        high(x) == Ge(x, 600)
        medium(x) == Ge(x, 400) /\ Lt(x, 600)
        low(x) == Lt(x, 400)
        relevant == sort_desc(SelectSeq(data,
                                 LAMBDA r : Ge(r.risk_score, 400)))
    IN  [total_hrus |-> Len(data),
         riesgo_alto |-> count(high),
         riesgo_medio |-> count(medium),
         riesgo_bajo |-> count(low),
         hru_details |-> IF Len(relevant) > AiListLimit
                         THEN head(relevant, AiListLimit) ELSE relevant]

NoPrompt == [total_hrus |-> 0, riesgo_alto |-> 0, riesgo_medio |-> 0,
             riesgo_bajo |-> 0, hru_details |-> <<>>]

\* result tables tried: nHigh units with scores 0.600, 0.601, .., nMedium
\* with 0.400, 0.599, 0.403, .., nLow with 0.399, 0.398, .., nNan units
\* without a score, in ascending or descending order of score; and a table
\* without the risk_score column
AiCounts == {0, 1, 11}
AiLowCounts == {0, 1, 21}
AiScore(kind, k) ==
    CASE kind = "high" -> 599 + k
      [] kind = "medium" -> (IF k = 1 THEN 400 ELSE IF k = 2 THEN 599 ELSE 400 + k)
      [] kind = "low" -> 400 - k
      [] OTHER -> NaN
AiRows(kind, n, first_id) ==
    [k \in 1..n |-> [grid_id |-> first_id + k - 1,
                     risk_score |-> AiScore(kind, k),
                     geometry |-> 900]]
Reverse(seq) == [i \in 1..Len(seq) |-> seq[Len(seq) + 1 - i]]
AiTables ==
    {<<[grid_id |-> 0, geometry |-> 900]>>}
    \cup UNION {
        LET asc == AiRows("low", nl, 0) \o AiRows("nan", nn, 100)
                   \o AiRows("medium", nm, 200) \o AiRows("high", nh, 300)
        IN  {asc, Reverse(asc)} :
        <<nl, nn, nm, nh>> \in AiLowCounts \X {0, 1} \X AiCounts \X AiCounts}

AiInit ==
    /\ ai_input \in AiTables
    /\ ai_pc = "ready"
    /\ ai_passed = <<>>
    /\ ai_prompt = [called |-> FALSE, prompt |-> NoPrompt, report |-> "none"]
AiIdle ==
    /\ ai_input = <<>>
    /\ ai_pc = "ready"
    /\ ai_passed = <<>>
    /\ ai_prompt = [called |-> FALSE, prompt |-> NoPrompt, report |-> "none"]

\* render_ai_alert_section(results_gdf, api_key): nothing happens without a
\* risk_score column or without rows; otherwise the AiPassLimit rows with the
\* highest score go to generate_ai_report, which builds the prompt and
\* returns the model's text, or the fallback text on any exception
RenderAiAlertSection ==
    /\ ai_pc = "ready"
    /\ ai_pc' = "done"
    /\ IF "risk_score" \notin Columns(ai_input)
       THEN UNCHANGED <<ai_passed, ai_prompt>>
       ELSE LET df_export == head(sort_desc(ai_input), AiPassLimit)
            IN  IF df_export = <<>>
                THEN UNCHANGED <<ai_passed, ai_prompt>>
                ELSE /\ ai_passed' = to_records(df_export)
                     /\ \E report \in {"text", "fallback"} :
                          ai_prompt' = [called |-> TRUE,
                                        prompt |-> ai_report_prompt(ai_passed'),
                                        report |-> report]
    /\ UNCHANGED <<ai_input, genVars, provVars>>
    /\ UNCHANGED <<classifyVars, monitorVars, hruVars, calcVars, dashVars>>

-----------------------------------------------------------------------------
(* DataGenerator *)

\* the catalog: id and initial_volume of the five glaciers
Catalog ==
    << [id |-> 1, initial_volume |-> 45000],
       [id |-> 2, initial_volume |-> 38000],
       [id |-> 3, initial_volume |-> 30000],
       [id |-> 4, initial_volume |-> 44000],
       [id |-> 5, initial_volume |-> 16000] >>

\* next((g for g in cls.GLACIARES if g["id"] == glacier_id), None)
find_glacier(catalog, glacier_id) ==
    IF \E i \in 1..Len(catalog) : catalog[i].id = glacier_id
    THEN catalog[CHOOSE i \in 1..Len(catalog) :
                    /\ catalog[i].id = glacier_id
                    /\ \A j \in 1..(i - 1) : catalog[j].id # glacier_id]
    ELSE [none |-> TRUE]

\* round(x, 2) of a non-negative x that is no tie: thousandths to hundredths
round2(x) == (x + 5) \div 10

\* generate_glacier_data: ValueError for an id that is not found, else the
\* snapshot.  draw holds the four sums of a uniform and a normal draw (the
\* random part) in thousandths; they are clamped, and rounded for the
\* report.  The reported values are in hundredths (den = 100); so is
\* current_volume, initial_volume * (1 - volume_loss_percent / 100) of the
\* clamped, unrounded loss (the volumes of the catalog are whole thousands).
generate_glacier_data(catalog, glacier_id, draw) ==
    LET glacier == find_glacier(catalog, glacier_id)
        temperature == PyMax(0, draw.temperature)
        melt_rate == PyMax(0, draw.melt_rate)
        volume_loss_percent == PyMax(0, PyMin(100000, draw.volume_loss_percent))
        velocity == PyMax(0, draw.velocity)
    IN  IF "none" \in DOMAIN glacier
        THEN [kind |-> "ValueError"]
        ELSE [kind |-> "snapshot", id |-> glacier.id, den |-> 100,
              temperature |-> round2(temperature),
              melt_rate |-> round2(melt_rate),
              volume_loss_percent |-> round2(volume_loss_percent),
              velocity |-> round2(velocity),
              current_volume |->
                  (glacier.initial_volume \div 1000)
                      * (100000 - volume_loss_percent)]

\* len(range(0, days * 24, interval_hours))
range_len(days, interval_hours) ==
    IF days <= 0 THEN 0 ELSE (days * 24 + interval_hours - 1) \div interval_hours

\* trend_factor = 1 + (i / (days * 24 * 2)) * 0.3 = (160 days + i) / (160 days):
\* its numerator
trend_factor(days, i) == 160 * days + i

\* generate_time_series: one generate_glacier_data call per sample, whose
\* ValueError passes through; then pd.DataFrame(data).sort_values(
\* "timestamp"), which raises KeyError on the column-less table of no sample.
\* The sample at hour i has temperature, melt_rate and volume_loss_percent
\* multiplied by trend_factor; the rows are in 1/den, den = 100 * 160 * days,
\* but for current_volume, which stays as generate_glacier_data returned it.
generate_time_series(catalog, glacier_id, days, interval_hours, draw) ==
    LET n == range_len(days, interval_hours)
        first == generate_glacier_data(catalog, glacier_id, draw)
    IN  IF n = 0 THEN [kind |-> "KeyError"]
        ELSE IF first.kind = "ValueError" THEN first
        ELSE [kind |-> "series", id |-> first.id, den |-> 100 * 160 * days,
              rows |-> [k \in 1..n |->
                  LET i == (k - 1) * interval_hours
                  IN  [hours |-> i,
                       temperature |->
                           first.temperature * trend_factor(days, i),
                       melt_rate |-> first.melt_rate * trend_factor(days, i),
                       volume_loss_percent |->
                           first.volume_loss_percent * trend_factor(days, i),
                       velocity |-> first.velocity * 160 * days,
                       current_volume |-> first.current_volume]]]

\* calls tried
MaxGenCalls == 2
GenIds == 0..7
GenDays == {0, 1, 2}
GenIntervals == {6, 24}
\* what np.random brings in one call of generate_glacier_data (the samples
\* of one series share it): temperature, melt, loss and velocity before the
\* clamps, in thousandths; GenSeriesDraws are those within reach of the
\* variability 0.4 of generate_time_series
GenSeriesDraws ==
    { [temperature |-> 0 - 1203, melt_rate |-> 0 - 2004,
       volume_loss_percent |-> 0 - 10003, velocity |-> 0 - 4001],
      [temperature |-> 3456, melt_rate |-> 17894,
       volume_loss_percent |-> 20004, velocity |-> 150126],
      [temperature |-> 5012, melt_rate |-> 28007,
       volume_loss_percent |-> 47003, velocity |-> 201009] }
GenDraws ==
    GenSeriesDraws
    \cup { [temperature |-> 6789, melt_rate |-> 32001,
            volume_loss_percent |-> 130002, velocity |-> 260007] }

GenInit ==
    /\ GLACIARES = Catalog
    /\ gen_calls = 0
    /\ gen_call = [op |-> "none"]
    /\ gen_outcome = [kind |-> "none"]
GenIdle == GenInit

GenerateGlacierData ==
    /\ gen_calls < MaxGenCalls
    /\ \E glacier_id \in GenIds, draw \in GenDraws :
         /\ gen_call' = [op |-> "generate_glacier_data",
                         glacier_id |-> glacier_id]
         /\ gen_outcome' = generate_glacier_data(GLACIARES, glacier_id, draw)
    /\ gen_calls' = gen_calls + 1
    /\ UNCHANGED <<GLACIARES, aiVars, provVars>>
    /\ UNCHANGED <<classifyVars, monitorVars, hruVars, calcVars, dashVars>>

GenerateTimeSeries ==
    /\ gen_calls < MaxGenCalls
    /\ \E glacier_id \in GenIds, days \in GenDays,
          interval_hours \in GenIntervals, draw \in GenSeriesDraws :
         /\ gen_call' = [op |-> "generate_time_series",
                         glacier_id |-> glacier_id, days |-> days,
                         interval_hours |-> interval_hours]
         /\ gen_outcome' = generate_time_series(GLACIARES, glacier_id, days,
                                                interval_hours, draw)
    /\ gen_calls' = gen_calls + 1
    /\ UNCHANGED <<GLACIARES, aiVars, provVars>>
    /\ UNCHANGED <<classifyVars, monitorVars, hruVars, calcVars, dashVars>>

-----------------------------------------------------------------------------
(* RealDataProvider *)

\* zone_id in RealDataProvider._temperature_cache, and a variant that never
\* finds the entry
cache_hit_never(cache, zone_id) == FALSE
cache_hit(cache, zone_id) == zone_id \in DOMAIN cache

\* what the forecast request of get_zone_temperature can bring: an error
\* (network, timeout, non-200 status, a body that is no JSON object, a
\* temperature that is no number), an answer without "current" (temperature
\* 0), or a temperature
ZoneResponses == {"error", "no_current", "tm4", "t5", "t9", "t34"}
zone_temp(response) ==
    CASE response = "tm4" -> 0 - 4
      [] response = "t5" -> 5
      [] response = "t9" -> 9
      [] response = "t34" -> 34
      [] OTHER -> 0
zone_record(zone_id, response, now) ==
    IF response = "error"
    THEN [zone_id |-> zone_id, temperature |-> 0, average_temperature |-> 0,
          error |-> "error"]
    ELSE [zone_id |-> zone_id, temperature |-> zone_temp(response),
          average_temperature |-> zone_temp(response),
          data_source |-> "OpenMeteo Current", timestamp |-> now]

\* the cache after a lookup that was not served from it: the result is
\* stored on success only; and a variant that stores the error record too
cache_after_always_stored(cache, zone_id, response, result) ==
    (zone_id :> result)
    @@ [z \in DOMAIN cache \ {zone_id} |-> cache[z]]
cache_after(cache, zone_id, response, result) ==
    IF response = "error" THEN cache
    ELSE (zone_id :> result)
         @@ [z \in DOMAIN cache \ {zone_id} |-> cache[z]]

\* what the archive request of get_temperature_data can bring, and what the
\* method does with it.  Only requests.RequestException is caught: a body
\* that is no JSON raises it in recent versions of requests and ValueError
\* in older ones.
ArchiveResponses ==
    {"network_error", "http_error", "bad_json", "no_daily",
     "daily_missing_field", "daily_null_value", "daily_empty", "daily_ok"}
temperature_outcomes(response) ==
    CASE response \in {"network_error", "http_error"} -> {"error_record"}
      [] response = "bad_json" -> {"error_record", "raised"}
      [] response = "no_daily" -> {"None"}
      [] response \in {"daily_missing_field", "daily_null_value"} -> {"raised"}
      [] OTHER -> {"record"}

\* calls tried
MaxProvCalls == 3
Zones == {"Z00", "Z01"}
Lats == {-45, -46}

ProvInit ==
    /\ temperature_cache = << >>
    /\ prov_calls = 0
    /\ prov_requests = 0
    /\ prov_result = [op |-> "none"]
ProvIdle == ProvInit

\* get_zone_temperature(zone_id, lat, lon)
GetZoneTemperature ==
    /\ prov_calls < MaxProvCalls
    /\ prov_calls' = prov_calls + 1
    /\ \E zone_id \in Zones, lat \in Lats :
         IF cache_hit(temperature_cache, zone_id)
         THEN /\ prov_result' = [op |-> "get_zone_temperature",
                                 zone_id |-> zone_id, lat |-> lat,
                                 kind |-> "cached",
                                 record |-> temperature_cache[zone_id]]
              /\ UNCHANGED <<temperature_cache, prov_requests>>
         ELSE \E response \in ZoneResponses :
                LET result == zone_record(zone_id, response, prov_calls')
                IN  /\ prov_requests' = prov_requests + 1
                    /\ prov_result' = [op |-> "get_zone_temperature",
                                       zone_id |-> zone_id, lat |-> lat,
                                       kind |-> IF response = "error"
                                                THEN "error" ELSE "fetched",
                                       record |-> result]
                    /\ temperature_cache' =
                          cache_after(temperature_cache, zone_id, response,
                                      result)
    /\ UNCHANGED <<aiVars, genVars>>
    /\ UNCHANGED <<classifyVars, monitorVars, hruVars, calcVars, dashVars>>

\* get_temperature_data(lat, lon, days)
GetTemperatureData ==
    /\ prov_calls < MaxProvCalls
    /\ prov_calls' = prov_calls + 1
    /\ prov_requests' = prov_requests + 1
    /\ \E lat \in Lats, response \in ArchiveResponses :
         \E kind \in temperature_outcomes(response) :
            prov_result' = [op |-> "get_temperature_data", lat |-> lat,
                            response |-> response, kind |-> kind]
    /\ UNCHANGED <<temperature_cache, aiVars, genVars>>
    /\ UNCHANGED <<classifyVars, monitorVars, hruVars, calcVars, dashVars>>

\* the derived columns, for a temperature in whole degrees: melt rate
\* max(0, t * 2.5) in half mm/day, volume loss max(0, min(100, t * 3)) in
\* percent, velocity max(0, t * 40) in m/year
derived_melt_rate_unclamped(t) == 5 * t
derived_melt_rate(t) == IF 5 * t > 0 THEN 5 * t ELSE 0
derived_volume_loss(t) == IF 3 * t > 100 THEN 100 ELSE IF 3 * t > 0 THEN 3 * t ELSE 0
derived_velocity(t) == IF 40 * t > 0 THEN 40 * t ELSE 0

\* what the loop of enrich_glacier_data_with_temperature gets for one
\* glacier: not ok when get_temperature_data or get_forecast_data raised,
\* returned None or returned the error record (the temperature counts as
\* 0), else the current temperature
EnrichOutcomes ==
    {[ok |-> FALSE, temp |-> 0]}
    \cup {[ok |-> TRUE, temp |-> t] : t \in {0 - 4, 0, 2, 33, 34}}
enrich_row(outcome) ==
    LET current_temp == IF outcome.ok THEN outcome.temp ELSE 0
    IN  [temperature |-> current_temp,
         melt_rate |-> IF current_temp # 0 THEN derived_melt_rate(current_temp)
                       ELSE 0,
         volume_loss_percent |-> derived_volume_loss(current_temp),
         velocity |-> derived_velocity(current_temp)]

\* glaciers per table and calls of the two table builders tried
MaxGlaciers == 2
MaxTableCalls == 2

\* enrich_glacier_data_with_temperature(gdf): two requests per glacier
EnrichGlacierData ==
    /\ prov_calls < MaxTableCalls
    /\ prov_calls' = prov_calls + 1
    /\ \E n \in 0..MaxGlaciers :
         \E outcomes \in [1..n -> EnrichOutcomes] :
            /\ prov_result' =
                  [op |-> "enrich_glacier_data_with_temperature",
                   kind |-> IF n = 0 THEN "unchanged" ELSE "table",
                   rows |-> [i \in 1..n |-> enrich_row(outcomes[i])]]
            /\ prov_requests' = prov_requests + 2 * n
    /\ UNCHANGED <<temperature_cache, aiVars, genVars>>
    /\ UNCHANGED <<classifyVars, monitorVars, hruVars, calcVars, dashVars>>

\* the zones in the order of AYSEN_ZONES
ZoneOrder == <<"Z00", "Z01">>

\* the loop over the zones of get_all_glaciers_from_geospatial from zone k
\* on: get_zone_temperature for each, the answer used when the zone is not
\* cached; gives the cache, the zone temperatures and the requests made
RECURSIVE zone_sweep(_, _, _, _)
zone_sweep(cache, responses, now, k) ==
    IF k > Len(ZoneOrder)
    THEN [cache |-> cache, temps |-> << >>, requests |-> 0]
    ELSE LET zone_id == ZoneOrder[k]
             hit == cache_hit(cache, zone_id)
             result == IF hit THEN cache[zone_id]
                       ELSE zone_record(zone_id, responses[zone_id], now)
             rest == zone_sweep(IF hit THEN cache
                                ELSE cache_after(cache, zone_id,
                                                 responses[zone_id], result),
                                responses, now, k + 1)
         IN  [cache |-> rest.cache,
              temps |-> (zone_id :> result.temperature) @@ rest.temps,
              requests |-> rest.requests + (IF hit THEN 0 ELSE 1)]

\* one row of the result of get_all_glaciers_from_geospatial
geospatial_row(zone_id, temperature) ==
    [zone_id |-> zone_id,
     temperature |-> temperature,
     melt_rate |-> derived_melt_rate(temperature),
     volume_loss_percent |-> derived_volume_loss(temperature),
     velocity |-> derived_velocity(temperature)]

\* get_all_glaciers_from_geospatial(): None without glaciers, else the
\* zone temperatures are looked up and every glacier gets the derived
\* values of its closest zone
GetAllGlaciersFromGeospatial ==
    /\ prov_calls < MaxTableCalls
    /\ prov_calls' = prov_calls + 1
    /\ \E n \in 0..MaxGlaciers :
         \E closest \in [1..n -> Zones],
            responses \in [Zones \ DOMAIN temperature_cache -> ZoneResponses] :
            IF n = 0
            THEN /\ prov_result' = [op |-> "get_all_glaciers_from_geospatial",
                                    kind |-> "None", rows |-> << >>]
                 /\ UNCHANGED <<temperature_cache, prov_requests>>
            ELSE LET sweep == zone_sweep(temperature_cache, responses,
                                         prov_calls', 1)
                 IN  /\ temperature_cache' = sweep.cache
                     /\ prov_requests' = prov_requests + sweep.requests
                     /\ prov_result' =
                           [op |-> "get_all_glaciers_from_geospatial",
                            kind |-> "table",
                            rows |-> [i \in 1..n |->
                                geospatial_row(closest[i],
                                               sweep.temps[closest[i]])]]
    /\ UNCHANGED <<aiVars, genVars>>
    /\ UNCHANGED <<classifyVars, monitorVars, hruVars, calcVars, dashVars>>

-----------------------------------------------------------------------------
(* The dashboard (app.py) *)

\* browser sessions and runs of the body of load_evaqua_analysis tried
Sessions == {"s1", "s2"}
MaxLoads == 2

NoEntry == [valid |-> FALSE, gen |-> 0]
DashInit ==
    /\ calculator = [layers |-> 0, results |-> 0]
    /\ analysis_cache = NoEntry
    /\ sessions = [s \in Sessions |->
                      [pc |-> "idle", snapshot |-> 0, map_layers |-> 0]]
    /\ dash_loads = 0
DashIdle == DashInit

DashFrame == UNCHANGED <<classifyVars, monitorVars, hruVars, calcVars,
                         aiVars, genVars, provVars>>

\* main(): calculator, results_gdf = load_evaqua_analysis() with a live
\* entry: st.cache_resource hands every session the objects of the entry
LoadAnalysisHit(s) ==
    /\ sessions[s].pc = "idle"
    /\ analysis_cache.valid
    /\ sessions' = [sessions EXCEPT ![s] =
                       [pc |-> "render_ai", snapshot |-> analysis_cache.gen,
                        map_layers |-> 0]]
    /\ UNCHANGED <<calculator, analysis_cache, dash_loads>>
    /\ DashFrame

\* .. without a live entry: the body runs (one run at a time), on the
\* instance of init_evaqua()
LoadAnalysisMiss(s) ==
    /\ sessions[s].pc = "idle"
    /\ ~analysis_cache.valid
    /\ \A o \in Sessions : sessions[o].pc \notin {"load_base", "compute"}
    /\ dash_loads < MaxLoads
    /\ dash_loads' = dash_loads + 1
    /\ sessions' = [sessions EXCEPT ![s].pc = "load_base"]
    /\ UNCHANGED <<calculator, analysis_cache>>
    /\ DashFrame

\* calculator.load_base_data(...): the layers of the shared instance are
\* assigned anew
DashLoadBaseData(s) ==
    /\ sessions[s].pc = "load_base"
    /\ calculator' = [calculator EXCEPT !.layers = dash_loads]
    /\ sessions' = [sessions EXCEPT ![s].pc = "compute"]
    /\ UNCHANGED <<analysis_cache, dash_loads>>
    /\ DashFrame

\* the rest of the body: topography, climate, the stages and the merges;
\* then the pair is returned and stored, or an exception is raised again
\* and nothing is stored
DashCompute(s) ==
    /\ sessions[s].pc = "compute"
    /\ \/ /\ calculator' = [calculator EXCEPT !.results = calculator.layers]
          /\ analysis_cache' = [valid |-> TRUE, gen |-> calculator.layers]
          /\ sessions' = [sessions EXCEPT ![s] =
                             [pc |-> "render_ai",
                              snapshot |-> calculator.layers,
                              map_layers |-> 0]]
       \/ /\ sessions' = [sessions EXCEPT ![s].pc = "idle"]
          /\ UNCHANGED <<calculator, analysis_cache>>
    /\ UNCHANGED dash_loads
    /\ DashFrame

\* ttl=3600 has passed since the entry was stored
CacheExpires ==
    /\ analysis_cache.valid
    /\ analysis_cache' = [analysis_cache EXCEPT !.valid = FALSE]
    /\ UNCHANGED <<calculator, sessions, dash_loads>>
    /\ DashFrame

\* render_ai_alert_section(results_gdf, key) and the banners: read the
\* result table of the session's snapshot
DashRenderAi(s) ==
    /\ sessions[s].pc = "render_ai"
    /\ sessions' = [sessions EXCEPT ![s].pc = "render_map"]
    /\ UNCHANGED <<calculator, analysis_cache, dash_loads>>
    /\ DashFrame

\* render_map_tab(results_gdf, layers, calculator) and the other tabs: the
\* map layers are read from calculator.glaciers_gdf, cuencas_gdf and
\* subcuencas_gdf; then the script run ends
RenderMapTab(s) ==
    /\ sessions[s].pc = "render_map"
    /\ sessions' = [sessions EXCEPT ![s].pc = "idle",
                                    ![s].map_layers = calculator.layers]
    /\ UNCHANGED <<calculator, analysis_cache, dash_loads>>
    /\ DashFrame

AuxIdle == AiIdle /\ GenIdle /\ ProvIdle /\ DashIdle

-----------------------------------------------------------------------------
(* Specifications *)

\* _classify_risk applied to one score
InitClassify == ClassifyInit /\ MonitorInit /\ HruIdle /\ FreshInit /\ AuxIdle
NextClassify == ClassifyRisk
SpecClassify == InitClassify /\ [][NextClassify]_vars

\* a GlacierMonitor over its lifetime
InitMonitor == MonitorInit /\ ClassifyIdle /\ HruIdle /\ FreshInit /\ AuxIdle
NextMonitor == \/ AnalyzeGlacier
               \/ GetAlertsByLevel
               \/ GetCriticalGlaciers
               \/ GetAlertsSummary
SpecMonitor == InitMonitor /\ [][NextMonitor]_vars

\* generate_hrus applied to one list of sub-basin rows
InitHru == HruInit /\ ClassifyIdle /\ MonitorInit /\ FreshInit /\ AuxIdle
NextHru == GenerateHrus \/ GenerateGridFromBounds
SpecHru == InitHru /\ [][NextHru]_vars

\* the model chain applied to tables set by the caller
InitStages == (StagesInit \/ FreshInit) /\ ClassifyIdle /\ MonitorInit /\ HruIdle /\ AuxIdle
NextStages == Stages
SpecStages == InitStages /\ [][NextStages]_vars

\* render_ai_alert_section applied to one results table
InitAi == AiInit /\ GenIdle /\ ProvIdle /\ ClassifyIdle /\ MonitorInit /\ HruIdle
              /\ FreshInit /\ DashIdle
NextAi == RenderAiAlertSection
SpecAi == InitAi /\ [][NextAi]_vars

\* DataGenerator over a few calls
InitGenerator == GenInit /\ AiIdle /\ ProvIdle /\ ClassifyIdle /\ MonitorInit
                     /\ HruIdle /\ FreshInit /\ DashIdle
NextGenerator == \/ GenerateGlacierData
                 \/ GenerateTimeSeries
SpecGenerator == InitGenerator /\ [][NextGenerator]_vars

\* RealDataProvider over a few calls
InitProvider == ProvInit /\ AiIdle /\ GenIdle /\ ClassifyIdle /\ MonitorInit
                    /\ HruIdle /\ FreshInit /\ DashIdle
NextProvider == \/ GetZoneTemperature
                \/ GetTemperatureData
SpecProvider == InitProvider /\ [][NextProvider]_vars

\* the two builders of the glacier table of RealDataProvider
InitTables == InitProvider
NextTables == \/ EnrichGlacierData
              \/ GetAllGlaciersFromGeospatial
SpecTables == InitTables /\ [][NextTables]_vars

\* the dashboard served to a few browser sessions, each script run in its
\* own thread
InitDashboard == DashInit /\ AiIdle /\ GenIdle /\ ProvIdle /\ ClassifyIdle
                     /\ MonitorInit /\ HruIdle /\ FreshInit
NextDashboard == \/ \E s \in Sessions : LoadAnalysisHit(s)
                 \/ \E s \in Sessions : LoadAnalysisMiss(s)
                 \/ \E s \in Sessions : DashLoadBaseData(s)
                 \/ \E s \in Sessions : DashCompute(s)
                 \/ CacheExpires
                 \/ \E s \in Sessions : DashRenderAi(s)
                 \/ \E s \in Sessions : RenderMapTab(s)
SpecDashboard == InitDashboard /\ [][NextDashboard]_vars

\* a whole run: run_full_analysis, or load_evaqua_analysis of the dashboard
Init == PipelineInit /\ ClassifyIdle /\ MonitorInit /\ HruIdle /\ AuxIdle
Next == \/ LoadBaseData
        \/ GetTopography
        \/ GetClimate
        \/ Stages
Spec == Init /\ [][Next]_vars

-----------------------------------------------------------------------------
(* Claims *)

\* C1: _classify_risk(score) is 'bajo' on [0, 0.25), 'medio' on [0.25, 0.50),
\* 'alto' on [0.50, 0.75), 'critico' on [0.75, 1.0), and 'critico' for every
\* score >= 1.0 and for every score that matches no range (negative, nan);
\* 0.25, 0.5 and 0.75 belong to the higher class.
C1_ClassifyRanges ==
    cr_class # "none" =>
        /\ (IsNum(cr_score) /\ 0 <= cr_score /\ cr_score < 200000000)
               => cr_class = "bajo"
        /\ (IsNum(cr_score) /\ 200000000 <= cr_score /\ cr_score < 400000000)
               => cr_class = "medio"
        /\ (IsNum(cr_score) /\ 400000000 <= cr_score /\ cr_score < 600000000)
               => cr_class = "alto"
        /\ (IsNum(cr_score) /\ 600000000 <= cr_score) => cr_class = "critico"
        /\ (~IsNum(cr_score) \/ cr_score < 0) => cr_class = "critico"
C1_Witness == cr_class = "medio" /\ cr_score = 200000000

\* C8: in every record analyze_glacier appended, each of the four checks is
\* in the alerts list at level critical when its value is >= the critical
\* threshold, at level warning when it is >= the warning threshold and below
\* the critical one, and is not in the list below the warning threshold; the
\* list holds nothing else; the status is critical if a listed check is
\* critical, else warning if the list is not empty, else normal.
C8_Checks ==
    << <<"temperature", "temperature", TEMP_THRESHOLD_WARNING,
         TEMP_THRESHOLD_CRITICAL>>,
       <<"melt_rate", "melt_rate", MELT_RATE_WARNING, MELT_RATE_CRITICAL>>,
       <<"volume_loss", "volume_loss_percent", VOLUME_LOSS_WARNING,
         VOLUME_LOSS_CRITICAL>>,
       <<"velocity", "velocity", VELOCITY_WARNING, VELOCITY_CRITICAL>> >>
C8_EntryOk(e) ==
    LET listed(t, lvl) == \E k \in 1..Len(e.alerts) :
                             /\ e.alerts[k].type = t
                             /\ e.alerts[k].level = lvl
                             /\ e.alerts[k].alert
        absent(t) == \A k \in 1..Len(e.alerts) : e.alerts[k].type # t
        anyCritical == \E k \in 1..Len(e.alerts) :
                          e.alerts[k].level = "critical"
    IN  /\ \A c \in 1..4 :
             LET t == C8_Checks[c][1]
                 v == e[C8_Checks[c][2]]
             IN  /\ v >= C8_Checks[c][4] => listed(t, "critical")
                 /\ (v >= C8_Checks[c][3] /\ v < C8_Checks[c][4])
                        => listed(t, "warning")
                 /\ v < C8_Checks[c][3] => absent(t)
        /\ \A k, l \in 1..Len(e.alerts) :
             e.alerts[k].type = e.alerts[l].type => k = l
        /\ e.status = IF anyCritical THEN "critical"
                      ELSE IF e.alerts # <<>> THEN "warning" ELSE "normal"
C8_AlertsAndStatus ==
    \A i \in 1..Len(alerts_history) : C8_EntryOk(alerts_history[i])
\* a critical temperature followed by three warnings stays critical, and a
\* record with every metric below its warning threshold is normal
C8_Witness ==
    /\ Len(alerts_history) = 2
    /\ alerts_history[1].status = "critical"
    /\ Len(alerts_history[1].alerts) = 4
    /\ alerts_history[1].alerts[1].level = "critical"
    /\ alerts_history[1].alerts[4].level = "warning"
    /\ alerts_history[2].status = "normal"
    /\ alerts_history[2].alerts = <<>>

\* C6: every row's division count follows from the row's own area and the
\* row's own glacier statistics: 1 below small_km2; between small_km2 and
\* medium_km2, 1 without an intersecting glacier and 2 with one; from
\* medium_km2 on, 3 when the density exceeds the threshold and 2 otherwise.
C6_OwnDecision(sub) ==
    IF sub.area_km2 < 50 THEN 1
    ELSE IF sub.area_km2 < 200 THEN (IF sub.g_count = 0 THEN 1 ELSE 2)
    ELSE IF sub.g_density > 5 THEN 3 ELSE 2
C_Rows(df, gid) == IF df = None THEN <<>> ELSE Rows(df, gid)
C_Min(a, b) == IF a <= b THEN a ELSE b
\* run_full_analysis has returned None after a failed load: no stage of this
\* run has worked on the tables
C_Aborted == caller = "run_full_analysis" /\ load_result = "False"
C_Without(df, gid) == SelectSeq(df, LAMBDA r : r.grid_id # gid)

\* C3: once calculate_melt has returned a table, it has one row per climate
\* record, in order; its melt rate is 8.0 * max(0, adjusted temperature), or
\* 4.0 * max(0, adjusted temperature) when snow_24h > 0 (a missing adjusted
\* temperature counts as no excess); the melt rate is never negative; and
\* snow_recent is true exactly when snow_24h > 0.
C3_MeltFormula ==
    (pc # "melt" /\ melt_df # None) =>
        /\ Len(melt_df) = Len(climate_data)
        /\ \A i \in 1..Len(melt_df) :
             LET m == melt_df[i]
                 c == climate_data[i]
                 t == m.temp_for_melt
                 excess == IF t # NaN /\ t > 0 THEN t ELSE 0
             IN  /\ m.grid_id = c.grid_id
                 /\ m.melt_rate_mm_day =
                       IF c.snow_24h > 0 THEN 4 * excess ELSE 8 * excess
                 /\ m.melt_rate_mm_day >= 0
                 /\ (m.snow_recent = "True") <=> (c.snow_24h > 0)
                 /\ (m.snow_recent = "False") <=> ~(c.snow_24h > 0)
\* two units: one with recent snow that melts at the snow factor, one
\* without snow and below zero that does not melt
C3_Witness ==
    /\ pc = "runoff"
    /\ melt_df # None
    /\ \E i, j \in 1..Len(melt_df) :
         /\ melt_df[i].snow_recent = "True"
         /\ melt_df[i].temp_for_melt # NaN
         /\ melt_df[i].temp_for_melt > 0
         /\ melt_df[i].melt_rate_mm_day = 4 * melt_df[i].temp_for_melt
         /\ melt_df[j].snow_recent = "False"
         /\ melt_df[j].temp_for_melt # NaN
         /\ melt_df[j].temp_for_melt < 0
         /\ melt_df[j].melt_rate_mm_day = 0

\* C4: once calculate_runoff has returned, every unit with a climate record
\* has one runoff row, whose coefficient is 0.20 for slope < 5, 0.35 for
\* 5 <= slope < 10, 0.50 for 10 <= slope < 20, 0.70 for slope > 20 and 0.50
\* without a topography record; whose intensity is precip_24h / 24, or 0 when
\* precip_24h is not positive; and whose runoff is coefficient * intensity *
\* area * 0.278, with 1.0 km2 for a non-positive area, and is never negative.
\* (Coefficients in twentieths, intensity in half mm/h, runoff in 3/20000
\* m3/s: three times the runoff is 139 * coefficient * intensity * area.)
C4_RunoffFormula ==
    (pc \notin {"melt", "runoff", "raised"} /\ runoff_df # None
         /\ grids_gdf # None) =>
        \A i \in 1..Len(grids_gdf) :
            LET grid == grids_gdf[i]
                cl == C_Rows(climate_data, grid.grid_id)
                tp == C_Rows(topo_data, grid.grid_id)
                rr == C_Rows(runoff_df, grid.grid_id)
                area == IF grid.area_km2 <= 0 THEN 1 ELSE grid.area_km2
            IN  cl # <<>> =>
                  /\ Len(rr) = 1
                  /\ tp = <<>> => rr[1].runoff_coeff = 10
                  /\ tp # <<>> =>
                       LET slope == tp[1].slope_mean
                       IN  /\ slope < 5 => rr[1].runoff_coeff = 4
                           /\ (5 <= slope /\ slope < 10)
                                  => rr[1].runoff_coeff = 7
                           /\ (10 <= slope /\ slope < 20)
                                  => rr[1].runoff_coeff = 10
                           /\ slope > 20 => rr[1].runoff_coeff = 14
                  /\ rr[1].precip_intensity_mm_h =
                        IF cl[1].precip_24h > 0 THEN 3 * cl[1].precip_24h
                        ELSE 0
                  /\ 3 * rr[1].runoff_m3s =
                        139 * rr[1].runoff_coeff
                            * rr[1].precip_intensity_mm_h * area
                  /\ rr[1].runoff_m3s >= 0
\* a steep unit of area 0 under rain: coefficient 0.70 and the area floor
C4_Witness ==
    /\ pc = "risk"
    /\ \E i \in 1..Len(grids_gdf) :
         LET rr == C_Rows(runoff_df, grids_gdf[i].grid_id)
         IN  /\ grids_gdf[i].area_km2 = 0
             /\ rr # <<>>
             /\ rr[1].runoff_coeff = 14
             /\ rr[1].precip_intensity_mm_h = 9
             /\ rr[1].runoff_m3s = 139 * 14 * 3

\* C2: once calculate_flood_risk has returned, every unit with a climate
\* record has one risk row with risk_score = w_melt * min(1, melt / 50)
\* + w_runoff * min(1, runoff / 1000) + w_precip * min(1, precip_72h / 300),
\* the weights being (0.05, 0.55, 0.40) when the unit's melt rate is below
\* 0.1 mm/day and (0.40, 0.40, 0.20) otherwise; and the score calculate_
\* flood_risk gives the unit when its melt row (its runoff row) is withheld
\* from the table is the same formula with melt 0 (runoff 0).
\* (Weights in twentieths, the three terms in 1/40000000.)
C2_Score(melt, runoff, precip_72h) ==
    LET w == IF melt < 200 THEN <<1, 11, 8>> ELSE <<8, 8, 4>>
    IN  w[1] * C_Min(40000000, 400 * melt)
        + w[2] * C_Min(40000000, 6 * runoff)
        + w[3] * C_Min(40000000, 4800000 * precip_72h)
C2_RiskFormula ==
    (pc \in {"combine", "proj", "flood", "done"} /\ risk_df # None) =>
        \A i \in 1..Len(grids_gdf) :
            LET gid == grids_gdf[i].grid_id
                cl == C_Rows(climate_data, gid)
                ml == C_Rows(melt_df, gid)
                rn == C_Rows(runoff_df, gid)
                rk == C_Rows(risk_df, gid)
                lessMelt == C_Without(melt_df, gid)
                lessRunoff == C_Without(runoff_df, gid)
            IN  cl # <<>> =>
                  /\ Len(rk) = 1 /\ Len(ml) = 1 /\ Len(rn) = 1
                  /\ rk[1].risk_score =
                        C2_Score(ml[1].melt_rate_mm_day, rn[1].runoff_m3s,
                                 cl[1].precip_72h)
                  /\ lessMelt # <<>> =>
                        Rows(calculate_flood_risk(grids_gdf, climate_data,
                                 lessMelt, runoff_df), gid)[1].risk_score
                        = C2_Score(0, rn[1].runoff_m3s, cl[1].precip_72h)
                  /\ lessRunoff # <<>> =>
                        Rows(calculate_flood_risk(grids_gdf, climate_data,
                                 melt_df, lessRunoff), gid)[1].risk_score
                        = C2_Score(ml[1].melt_rate_mm_day, 0,
                                   cl[1].precip_72h)
\* two units with a climate record, one in each regime
C2_Witness ==
    /\ pc = "combine"
    /\ Len(risk_df) = 2
    /\ melt_df[1].melt_rate_mm_day = 200
    /\ melt_df[2].melt_rate_mm_day < 200
    /\ risk_df[1].risk_score > 0
    /\ risk_df[2].risk_score > 0

\* C5: once calculate_projected_risk_3d has returned, every unit with a
\* climate record has one projection row with melt_3d_mm = 3 * the melt rate,
\* precip_3d_mm = 3 * precip_24h, water_total_3d_mm their sum, risk_score_3d
\* = 0.35 * min(1, melt_3d / 150) + 0.35 * min(1, runoff / 1200)
\* + 0.30 * min(1, precip_3d / 300), and risk_class_3d the class that
\* _classify_risk gives that score.
\* (Melt in 1/2000 mm, precipitation in 36 mm: the sum is taken in 1/2000
\* mm; weights in twentieths, the three terms in 1/40000000.)
C5_Projection ==
    (pc \in {"flood", "done"} /\ proj_df # None) =>
        \A i \in 1..Len(grids_gdf) :
            LET gid == grids_gdf[i].grid_id
                cl == C_Rows(climate_data, gid)
                ml == C_Rows(melt_df, gid)
                rn == C_Rows(runoff_df, gid)
                pj == C_Rows(proj_df, gid)
            IN  cl # <<>> =>
                  /\ Len(pj) = 1 /\ Len(ml) = 1 /\ Len(rn) = 1
                  /\ pj[1].melt_3d_mm = 3 * ml[1].melt_rate_mm_day
                  /\ pj[1].precip_3d_mm = 3 * cl[1].precip_24h
                  /\ pj[1].water_total_3d_mm =
                        pj[1].melt_3d_mm + 72000 * pj[1].precip_3d_mm
                  /\ pj[1].risk_score_3d =
                        7 * C_Min(40000000, (400 * pj[1].melt_3d_mm) \div 3)
                        + 7 * C_Min(40000000, 5 * rn[1].runoff_m3s)
                        + 6 * C_Min(40000000, 4800000 * pj[1].precip_3d_mm)
                  /\ pj[1].risk_class_3d = classify_risk(pj[1].risk_score_3d)
\* a unit that melts 24 mm/day (72 mm in three days, below the 150 mm cap)
\* under 72 mm of rain a day
C5_Witness ==
    /\ pc = "flood"
    /\ proj_df # None
    /\ \E i \in 1..Len(proj_df) :
         /\ proj_df[i].melt_3d_mm = 72 * 2000
         /\ proj_df[i].precip_3d_mm = 6
         /\ proj_df[i].risk_class_3d = "alto"

\* C7: the step _identify_flood_zones leaves a missing or empty merged
\* result as it is; otherwise it keeps the rows, one for one, and gives each
\* the flag and description of the first rule that matches, in the order
\* (elevation < 500 and slope < 5 and runoff > 100): flood-prone, 'Alto
\* riesgo'; (elevation < 800 and runoff > 200): flood-prone, 'Riesgo medio';
\* (risk_score > 0.5): flood-prone, 'Atencion'; else not flood-prone, 'Bajo
\* riesgo'.  A column the result does not have counts as 0, and a missing
\* value satisfies no comparison.  (Runoff in 3/20000 m3/s, scores in
\* 1/800000000.)
C7_Value(row, col) == IF col \in DOMAIN row THEN row[col] ELSE 0
C7_Below(x, k) == x # NaN /\ x < k
C7_Above(x, k) == x # NaN /\ x > k
C7_Expected(row) ==
    LET elevation == C7_Value(row, "elevation_mean")
        slope == C7_Value(row, "slope_mean")
        runoff == C7_Value(row, "runoff_m3s")
        risk_score == C7_Value(row, "risk_score")
    IN  IF C7_Below(elevation, 500) /\ C7_Below(slope, 5)
           /\ C7_Above(runoff, 666666)
        THEN <<"True", "Alto riesgo - Zona baja con alta escorrentia">>
        ELSE IF C7_Below(elevation, 800) /\ C7_Above(runoff, 1333333)
        THEN <<"True",
               "Riesgo medio - Elevacion moderada con escorrentia significativa">>
        ELSE IF C7_Above(risk_score, 400000000)
        THEN <<"True", "Atencion - Alto indice de riesgo general">>
        ELSE <<"False", "Bajo riesgo">>
C7_FloodRules ==
    [][pc = "flood" =>
          IF results_gdf = None \/ results_gdf = <<>>
          THEN results_gdf' = results_gdf
          ELSE /\ Len(results_gdf') = Len(results_gdf)
               /\ \A i \in 1..Len(results_gdf) :
                    LET old == results_gdf[i]
                        new == results_gdf'[i]
                    IN  /\ DOMAIN new = DOMAIN old
                                        \cup {"flood_prone", "flood_description"}
                        /\ \A c \in DOMAIN old : new[c] = old[c]
                        /\ <<new.flood_prone, new.flood_description>>
                               = C7_Expected(old)]_vars
\* two units: the first matches the first rule, the second matches the third
\* rule only
C7_Witness ==
    /\ pc = "done"
    /\ results_gdf # None
    /\ Len(results_gdf) = 2
    /\ results_gdf[1].flood_description
          = "Alto riesgo - Zona baja con alta escorrentia"
    /\ results_gdf[1].risk_score > 400000000
    /\ results_gdf[2].flood_description = "Bajo riesgo"
    /\ results_gdf[2].flood_prone = "False"

\* C9: from the merges on, the merged result has exactly one row for every
\* grid_id of the base table, and no other row.
C9_GridIdsOnce ==
    (pc \in {"proj", "flood", "done"} /\ ~C_Aborted /\ results_gdf # None
         /\ grids_gdf # None) =>
        /\ Len(results_gdf) = Len(grids_gdf)
        /\ \A i \in 1..Len(grids_gdf) :
             Cardinality({j \in 1..Len(results_gdf) :
                             results_gdf[j].grid_id = grids_gdf[i].grid_id}) = 1
\* a finished run in which the first unit had a climate and a topography
\* record and the second unit had neither
C9_Witness ==
    /\ pc = "done"
    /\ Len(grids_gdf) = 2
    /\ Len(results_gdf) = 2
    /\ C_Rows(climate_data, grids_gdf[1].grid_id) # <<>>
    /\ C_Rows(topo_data, grids_gdf[1].grid_id) # <<>>
    /\ C_Rows(climate_data, grids_gdf[2].grid_id) = <<>>
    /\ C_Rows(topo_data, grids_gdf[2].grid_id) = <<>>

\* C10: in the merged result of a finished run, every unit for which the
\* risk (melt, runoff) stage supplied no row holds 0 in risk_score
\* (melt_rate_mm_day, runoff_m3s).
C10_DefaultsDefined ==
    (pc = "done" /\ ~C_Aborted /\ results_gdf # None) =>
        \A i \in 1..Len(results_gdf) :
            LET row == results_gdf[i]
                zero(col) == col \in DOMAIN row /\ row[col] = 0
            IN  /\ C_Rows(risk_df, row.grid_id) = <<>> => zero("risk_score")
                /\ C_Rows(melt_df, row.grid_id) = <<>>
                      => zero("melt_rate_mm_day")
                /\ C_Rows(runoff_df, row.grid_id) = <<>> => zero("runoff_m3s")

\* the positions of a flow at which its next statement calls a stage
C_StagePcs == {"topo", "climate", "melt", "runoff", "risk", "combine",
               "proj", "flood"}

\* C11: load_base_data never raises, it returns True or False; when it
\* returns False under run_full_analysis, the run ends there (it returns
\* None) with results_gdf, last_update and the stage tables as they were
\* before the call, and no stage is called afterwards.
C11_LoadFailureAborts ==
    [][/\ (pc = "load" /\ caller = "run_full_analysis") =>
            /\ pc' # "raised"
            /\ load_result' \in {"True", "False"}
            /\ load_result' = "False" =>
                  /\ pc' = "done"
                  /\ results_gdf' = results_gdf
                  /\ last_update' = last_update
                  /\ <<topo_data, climate_data, melt_df, runoff_df, risk_df,
                       proj_df>>' = <<topo_data, climate_data, melt_df,
                                      runoff_df, risk_df, proj_df>>
       /\ (caller = "run_full_analysis" /\ load_result = "False") =>
            pc \notin C_StagePcs
      ]_vars
\* run_full_analysis has returned None after a load that failed with the new
\* units already assigned, on a calculator that held an earlier result
C11_Witness ==
    /\ caller = "run_full_analysis"
    /\ load_result = "False"
    /\ pc = "done"
    /\ grids_gdf # PriorGrids
    /\ results_gdf = PriorResults
    /\ last_update = 1

\* C12: under load_evaqua_analysis, once load_base_data has returned False
\* no stage is called.
C12_DashboardStopsOnLoadFailure ==
    [][(caller = "load_evaqua_analysis" /\ load_result = "False") =>
            pc \notin C_StagePcs]_vars

\* C13: after a successful load_base_data, run_full_analysis never ends in
\* an exception.
C13_RunNeverRaises ==
    (caller = "run_full_analysis" /\ load_result = "True") => pc # "raised"

\* C14: the history has one entry per analyze_glacier call made, in call
\* order; a call appends exactly the record it returns and leaves the
\* earlier entries as they were; a query leaves the history as it was.
C14_HistoryAppendOnly ==
    /\ [](/\ Len(alerts_history) = mon_calls
          /\ \A i \in 1..Len(alerts_history) :
                alerts_history[i].timestamp = i)
    /\ [][IF mon_calls' = mon_calls + 1
          THEN /\ Len(alerts_history') = Len(alerts_history) + 1
               /\ SubSeq(alerts_history', 1, Len(alerts_history))
                      = alerts_history
               /\ alerts_history'[Len(alerts_history')] = mon_result'
          ELSE alerts_history' = alerts_history]_vars
\* two calls were made, then a query returned a proper part of the history
C14_Witness ==
    /\ Len(alerts_history) = 2
    /\ mon_query.op = "get_alerts_by_level"
    /\ mon_query.at = 2
    /\ Len(mon_query.list) = 1
    /\ alerts_history[1].status # alerts_history[2].status

\* C20: what get_alerts_summary returned has info = 0, warning and critical
\* equal to the numbers of history entries with that status, and the three
\* counts sum to the history length minus the number of normal entries.
C20_Count(status) ==
    Cardinality({i \in 1..Len(alerts_history) :
                    alerts_history[i].status = status})
C20_SummaryCounts ==
    (mon_query.op = "get_alerts_summary" /\ mon_query.at = mon_calls) =>
        /\ mon_query.summary.info = 0
        /\ mon_query.summary.warning = C20_Count("warning")
        /\ mon_query.summary.critical = C20_Count("critical")
        /\ mon_query.summary.info + mon_query.summary.warning
              + mon_query.summary.critical
                 = Len(alerts_history) - C20_Count("normal")
\* a summary of a history that holds a normal and a critical entry
C20_Witness ==
    /\ mon_query.op = "get_alerts_summary"
    /\ mon_query.at = 2
    /\ mon_calls = 2
    /\ C20_Count("normal") = 1
    /\ mon_query.summary.critical = 1

\* C15: when get_climate_data has returned, the climate table holds exactly
\* one record for every unit, under that unit's grid_id, and every record
\* has a value in every climate field, the weather-model elevation included.
C15_ClimateFields ==
    {"temp_current", "snow_24h", "precip_24h", "precip_72h", "elevation"}
C15_OneRecordPerUnit ==
    pc = "melt" =>
        /\ Len(climate_data) = Len(grids_gdf)
        /\ \A i \in 1..Len(grids_gdf) :
             /\ Len(C_Rows(climate_data, grids_gdf[i].grid_id)) = 1
             /\ \A f \in C15_ClimateFields :
                   /\ f \in DOMAIN climate_data[i]
                   /\ IsNum(climate_data[i][f])

\* C16: when render_ai_alert_section has called generate_ai_report, at most
\* 20 units were passed and no unit left out has a higher score than a unit
\* passed; the prompt lists only passed units with score >= 0.4, in
\* descending order of score, at most 10, and no passed unit left out of the
\* list has a score >= 0.4 above a listed one (or is left out while the list
\* is shorter than 10); the high, medium and low counts are the numbers of
\* passed units with score >= 0.6, in [0.4, 0.6) and < 0.4, and sum to the
\* number of passed units.
C16_Ids(rows) == {rows[i].grid_id : i \in 1..Len(rows)}
C16_Selection ==
    (ai_pc = "done" /\ ai_prompt.called) =>
        LET listed == ai_prompt.prompt.hru_details
            prompt == ai_prompt.prompt
            n(P(_)) == Cardinality({i \in 1..Len(ai_passed) :
                                      P(ai_passed[i].risk_score)})
            high(x) == x # NaN /\ x >= 600
            medium(x) == x # NaN /\ x >= 400 /\ x < 600
            low(x) == x # NaN /\ x < 400
        IN  /\ Len(ai_passed) <= 20
            /\ C16_Ids(ai_passed) \subseteq C16_Ids(ai_input)
            /\ \A i \in 1..Len(ai_input) :
                 ai_input[i].grid_id \notin C16_Ids(ai_passed) =>
                    /\ Len(ai_passed) = 20
                    /\ \A j \in 1..Len(ai_passed) :
                         ~Gt(ai_input[i].risk_score, ai_passed[j].risk_score)
            /\ Len(listed) <= 10
            /\ \A k \in 1..Len(listed) :
                 /\ listed[k].grid_id \in C16_Ids(ai_passed)
                 /\ high(listed[k].risk_score) \/ medium(listed[k].risk_score)
                 /\ k > 1 => listed[k - 1].risk_score >= listed[k].risk_score
            /\ \A j \in 1..Len(ai_passed) :
                 (/\ ai_passed[j].grid_id \notin C16_Ids(listed)
                  /\ Ge(ai_passed[j].risk_score, 400)) =>
                    /\ Len(listed) = 10
                    /\ \A k \in 1..Len(listed) :
                         listed[k].risk_score >= ai_passed[j].risk_score
            /\ prompt.riesgo_alto = n(high)
            /\ prompt.riesgo_medio = n(medium)
            /\ prompt.riesgo_bajo = n(low)
            /\ prompt.riesgo_alto + prompt.riesgo_medio + prompt.riesgo_bajo
                  = Len(ai_passed)

\* C17: a call with an id that is not in the catalog ends in the
\* invalid-input error (ValueError), in generate_glacier_data and in
\* generate_time_series; generate_glacier_data with an id of the catalog
\* returns a snapshot of that glacier; the catalog never changes.
C17_InCatalog(glacier_id) == \E i \in 1..Len(Catalog) : Catalog[i].id = glacier_id
C17_UnknownIdFails ==
    /\ GLACIARES = Catalog
    /\ gen_call.op # "none" =>
         IF C17_InCatalog(gen_call.glacier_id)
         THEN gen_call.op = "generate_glacier_data" =>
                 /\ gen_outcome.kind = "snapshot"
                 /\ gen_outcome.id = gen_call.glacier_id
         ELSE gen_outcome.kind = "ValueError"

C19_AlwaysARecord ==
    prov_result.op = "get_temperature_data" =>
        prov_result.kind \in {"record", "error_record"}

\* C21: every row of the risk table whose melt, runoff and 72 h
\* precipitation inputs are non-negative numbers has its three components
\* and its risk_score in [0, 1], and every row of the projection table whose
\* melt, runoff and 24 h precipitation inputs are non-negative numbers has
\* its risk_score_3d in [0, 1].  (Components in 1/40000000, scores in
\* 1/800000000.)
C21_NonNeg(x) == x # NaN /\ x >= 0
C21_Unit(x, top) == x # NaN /\ 0 <= x /\ x <= top
C21_Inputs(gid, col) ==
    LET ml == C_Rows(melt_df, gid)
        rn == C_Rows(runoff_df, gid)
        cl == C_Rows(climate_data, gid)
    IN  /\ cl # <<>>
        /\ C21_NonNeg(cl[1][col])
        /\ ml # <<>> => C21_NonNeg(ml[1].melt_rate_mm_day)
        /\ rn # <<>> => C21_NonNeg(rn[1].runoff_m3s)
C21_ScoresInUnitInterval ==
    /\ (pc \in {"combine", "proj", "flood", "done"} /\ risk_df # None) =>
          \A i \in 1..Len(risk_df) :
              C21_Inputs(risk_df[i].grid_id, "precip_72h") =>
                  /\ C21_Unit(risk_df[i].melt_component, CompDen)
                  /\ C21_Unit(risk_df[i].runoff_component, CompDen)
                  /\ C21_Unit(risk_df[i].precip_component, CompDen)
                  /\ C21_Unit(risk_df[i].risk_score, ScoreDen)
    /\ (pc \in {"flood", "done"} /\ proj_df # None) =>
          \A i \in 1..Len(proj_df) :
              C21_Inputs(proj_df[i].grid_id, "precip_24h") =>
                  C21_Unit(proj_df[i].risk_score_3d, ScoreDen)
\* a unit that melts more than 50 mm/day under more than 300 mm of rain in
\* 72 h: two components sit on the cap, and the projection is computed
C21_Witness ==
    /\ pc = "flood"
    /\ proj_df # None /\ risk_df # None
    /\ \E i \in 1..Len(risk_df) :
         /\ C21_Inputs(risk_df[i].grid_id, "precip_72h")
         /\ C_Rows(melt_df, risk_df[i].grid_id)[1].melt_rate_mm_day
                > 50 * TempDen
         /\ risk_df[i].melt_component = CompDen
         /\ risk_df[i].precip_component = CompDen
         /\ C_Rows(proj_df, risk_df[i].grid_id) # <<>>

\* C22: once calculate_melt has returned, the temperature it used for a unit
\* (temp_for_melt) is forecast_temp + (hru_elevation - model_elevation) *
\* (-0.0065) when the climate record carries a model elevation and the unit's
\* elevation (from the unit table, else from the topography table) is
\* positive, and is the forecast temperature itself when the model elevation
\* is unknown or the unit's elevation is missing or not positive.
\* (Temperatures in 1/2000 C: the lapse rate is -13 per metre.)
C22_HruElevation(gid) ==
    LET g == C_Rows(grids_gdf, gid)
        t == C_Rows(topo_data, gid)
    IN  IF g # <<>> /\ "elevation_mean" \in DOMAIN g[1] THEN g[1].elevation_mean
        ELSE IF t # <<>> THEN t[1].elevation_mean
        ELSE Absent
C22_ModelElevationKnown(c) == "elevation" \in DOMAIN c /\ IsNum(c.elevation)
C22_AfterMelt ==
    /\ pc \in {"runoff", "risk", "combine", "proj", "flood", "done"}
    /\ melt_df # None /\ climate_data # None /\ grids_gdf # None
    /\ Len(melt_df) = Len(climate_data)
C22_LapseRateOnlyWhenKnown ==
    C22_AfterMelt =>
        \A i \in 1..Len(melt_df) :
            LET c == climate_data[i]
                h == C22_HruElevation(c.grid_id)
            IN  melt_df[i].temp_for_melt =
                    IF C22_ModelElevationKnown(c) /\ IsNum(h) /\ h > 0
                    THEN c.temp_current + (h - c.elevation) * (0 - 13)
                    ELSE c.temp_current

\* C23: once get_topography_for_grids has returned, the topography table has
\* exactly one row per unit, in unit order, each with the unit's grid_id and
\* an elevation that is a value reported by the service or 0: the list
\* returned by _fetch_elevation_batch_optimized has one elevation per
\* requested point, whatever the batches were answered.
C23_AfterTopography ==
    /\ pc \in {"climate", "melt", "runoff", "risk", "combine", "proj",
               "flood", "done"}
    /\ ~C_Aborted
    /\ grids_gdf # None /\ topo_data # None
C23_OneElevationPerPoint ==
    C23_AfterTopography =>
        /\ Len(topo_data) = Len(grids_gdf)
        /\ \A i \in 1..Len(topo_data) :
             /\ topo_data[i].grid_id = grids_gdf[i].grid_id
             /\ topo_data[i].elevation_mean \in ElevValues \cup {0}

\* C24: the units produced by generate_hrus carry pairwise distinct ids that
\* increase strictly in production order, whatever bands were dropped and
\* whatever codes the sub-basin rows share; and the cells of the fallback
\* grid carry pairwise distinct ids, both as _generate_grid_from_bounds
\* numbers them and as load_base_data renumbers them.
C24_Distinct(rows, col) ==
    \A i, j \in 1..Len(rows) : i # j => rows[i][col] # rows[j][col]
C24_UniqueIds ==
    /\ hru_pc = "done" =>
          /\ C24_Distinct(hrus, "hru_id")
          /\ \A i \in 1..(Len(hrus) - 1) : hrus[i].hru_id < hrus[i + 1].hru_id
    /\ hru_pc = "grid" =>
          /\ C24_Distinct(hrus, "grid_id")
          /\ C24_Distinct(generate_grid_from_bounds(hru_ndivs[1], hru_ndivs[2]),
                          "grid_id")
\* two rows with the same code, the first divided in three with its middle
\* band dropped, the second divided in two
C24_Witness ==
    /\ hru_pc = "done"
    /\ Len(hru_subs) = 2
    /\ hru_subs[1].cod = hru_subs[2].cod
    /\ hru_ndivs = <<3, 2>>
    /\ hru_subs[1].gap
    /\ Len(hrus) = 4
    /\ hrus[2].hru_id = 2 /\ hrus[3].hru_id = 3

\* C25: once a stage has returned its table, every unit has exactly one row
\* in it when the unit has a climate record and none when it has not, for
\* the melt, the runoff, the risk and the projection table alike; and no
\* table holds two rows with the same grid_id.
C25_Count(df, gid) == Len(C_Rows(df, gid))
C25_TableFollowsClimate(df) ==
    /\ \A i \in 1..Len(grids_gdf) :
         LET gid == grids_gdf[i].grid_id
         IN  C25_Count(df, gid) =
                 IF C_Rows(climate_data, gid) # <<>> THEN 1 ELSE 0
    /\ \A k \in 1..Len(df) : C25_Count(df, df[k].grid_id) = 1
C25_Fresh(df, stages) ==
    /\ pc \in stages
    /\ ~C_Aborted
    /\ df # None /\ grids_gdf # None /\ climate_data # None
C25_RowsFollowClimate ==
    /\ C25_Fresh(melt_df, {"runoff", "risk", "combine", "proj", "flood",
                           "done"}) => C25_TableFollowsClimate(melt_df)
    /\ C25_Fresh(runoff_df, {"risk", "combine", "proj", "flood", "done"})
          => C25_TableFollowsClimate(runoff_df)
    /\ C25_Fresh(risk_df, {"combine", "proj", "flood", "done"})
          => C25_TableFollowsClimate(risk_df)
    /\ C25_Fresh(proj_df, {"flood", "done"})
          => C25_TableFollowsClimate(proj_df)
\* three units of which the second has no climate record (its batch was
\* answered one object short): the four tables hold the first and the third
C25_Witness ==
    /\ pc = "done"
    /\ C25_Fresh(proj_df, {"done"})
    /\ melt_df # None /\ runoff_df # None /\ risk_df # None
    /\ Len(grids_gdf) = 3
    /\ C_Rows(climate_data, grids_gdf[2].grid_id) = <<>>
    /\ \A df \in {melt_df, runoff_df, risk_df, proj_df} :
         /\ Len(df) = 2
         /\ df[1].grid_id = grids_gdf[1].grid_id
         /\ df[2].grid_id = grids_gdf[3].grid_id

\* C26 (as stated): every row of the table built by
\* enrich_glacier_data_with_temperature or by
\* get_all_glaciers_from_geospatial has melt_rate = temperature * 2.5,
\* volume_loss_percent = clamp(temperature * 3, 0, 100) and velocity =
\* max(0, temperature * 40), for positive, zero and negative temperatures.
\* (Temperatures in whole degrees, melt rates in half mm/day.)
C26_Tables ==
    /\ prov_result.op \in {"enrich_glacier_data_with_temperature",
                           "get_all_glaciers_from_geospatial"}
    /\ prov_result.kind = "table"
C26_Clamp(x, lo, hi) == IF x < lo THEN lo ELSE IF x > hi THEN hi ELSE x
C26_LinearProxies ==
    C26_Tables =>
        \A i \in 1..Len(prov_result.rows) :
            LET r == prov_result.rows[i]
            IN  /\ r.melt_rate = 5 * r.temperature
                /\ r.volume_loss_percent = C26_Clamp(3 * r.temperature, 0, 100)
                /\ r.velocity = (IF r.temperature > 0 THEN 40 * r.temperature
                                ELSE 0)
\* C26 (amended): the same with melt_rate = max(0, temperature * 2.5): the
\* melt rate of a negative temperature is 0, in both builders.
C26_ClampedProxies ==
    C26_Tables =>
        \A i \in 1..Len(prov_result.rows) :
            LET r == prov_result.rows[i]
                t == r.temperature
            IN  /\ r.melt_rate = (IF t > 0 THEN 5 * t ELSE 0)
                /\ r.volume_loss_percent = C26_Clamp(3 * t, 0, 100)
                /\ r.velocity = (IF t > 0 THEN 40 * t ELSE 0)
\* the zone-batched table after an enriched one: a glacier of a zone at -4 C
\* (melt rate and velocity 0, no volume loss) and one of a zone at 34 C
\* (volume loss capped at 100)
C26_Witness ==
    /\ prov_calls = 2
    /\ C26_Tables
    /\ prov_result.op = "get_all_glaciers_from_geospatial"
    /\ Len(prov_result.rows) = 2
    /\ prov_result.rows[1].temperature = 0 - 4
    /\ prov_result.rows[1].melt_rate = 0
    /\ prov_result.rows[1].velocity = 0
    /\ prov_result.rows[2].temperature = 34
    /\ prov_result.rows[2].melt_rate = 170
    /\ prov_result.rows[2].volume_loss_percent = 100

-----------------------------------------------------------------------------
(* C27 *)

\* a session between load_evaqua_analysis and the end of its script run
C27_Rendering(s) == sessions[s].pc \in {"render_ai", "render_map"}

\* C27: while a session is still rendering the snapshot it was handed, the
\* shared calculator holds the layers and the result table of that very
\* snapshot: a recomputation by load_evaqua_analysis never changes what the
\* session reads.
C27_SnapshotStable ==
    \A s \in Sessions :
        C27_Rendering(s) =>
            /\ calculator.layers = sessions[s].snapshot
            /\ calculator.results = sessions[s].snapshot

\* the session's map was drawn from layers of another generation than the
\* result table it was handed
C27_MixedMap ==
    \E s \in Sessions :
        /\ sessions[s].map_layers # 0
        /\ sessions[s].map_layers # sessions[s].snapshot

\* the rendering steps write neither to the calculator nor to the cache
C27_RenderingReadsOnly ==
    [][(\E s \in Sessions : DashRenderAi(s) \/ RenderMapTab(s))
          => (calculator' = calculator /\ analysis_cache' = analysis_cache)]_vars

-----------------------------------------------------------------------------
(* C28 *)

\* the melt rate, the runoff and the 72 h precipitation calculate_flood_risk
\* read for a unit (0 for a unit without a melt or runoff row)
C28_Melt(gid) ==
    LET ml == C_Rows(melt_df, gid)
    IN  IF ml # <<>> THEN ml[1].melt_rate_mm_day ELSE 0
C28_Runoff(gid) ==
    LET rn == C_Rows(runoff_df, gid)
    IN  IF rn # <<>> THEN rn[1].runoff_m3s ELSE 0
C28_Precip(gid) == C_Rows(climate_data, gid)[1].precip_72h
C28_Numbers(gid) ==
    /\ C_Rows(climate_data, gid) # <<>>
    /\ C21_NonNeg(C28_Melt(gid))
    /\ C21_NonNeg(C28_Runoff(gid))
    /\ C21_NonNeg(C28_Precip(gid))

\* C28: of two units of one risk table with the same runoff and the same
\* 72 h precipitation, the one with the larger melt rate never has the
\* smaller risk score, in particular when their melt rates lie on the two
\* sides of the 0.1 mm/day weight switch.
C28_MonotoneInMelt ==
    (pc \in {"combine", "proj", "flood", "done"} /\ risk_df # None) =>
        \A i, j \in 1..Len(risk_df) :
            LET a == risk_df[i].grid_id
                b == risk_df[j].grid_id
            IN  (/\ C28_Numbers(a) /\ C28_Numbers(b)
                 /\ C28_Runoff(a) = C28_Runoff(b)
                 /\ C28_Precip(a) = C28_Precip(b)
                 /\ C28_Melt(a) <= C28_Melt(b))
                => risk_df[i].risk_score <= risk_df[j].risk_score

\* the same for two units on one side of the switch
C28_MonotoneOnOneSide ==
    (pc \in {"combine", "proj", "flood", "done"} /\ risk_df # None) =>
        \A i, j \in 1..Len(risk_df) :
            LET a == risk_df[i].grid_id
                b == risk_df[j].grid_id
            IN  (/\ C28_Numbers(a) /\ C28_Numbers(b)
                 /\ C28_Runoff(a) = C28_Runoff(b)
                 /\ C28_Precip(a) = C28_Precip(b)
                 /\ C28_Melt(a) <= C28_Melt(b)
                 /\ risk_weights(C28_Melt(a)) = risk_weights(C28_Melt(b)))
                => risk_df[i].risk_score <= risk_df[j].risk_score

-----------------------------------------------------------------------------
(* C29 *)

\* the snapshots of the last call: the one of generate_glacier_data, or the
\* rows of generate_time_series
C29_Snapshots ==
    IF gen_outcome.kind = "snapshot" THEN {gen_outcome}
    ELSE IF gen_outcome.kind = "series"
    THEN {gen_outcome.rows[k] : k \in 1..Len(gen_outcome.rows)}
    ELSE {}

\* the thousands of the initial volume of the glacier of the last call
C29_InitialVolume ==
    find_glacier(GLACIARES, gen_outcome.id).initial_volume \div 1000

\* temperature, melt_rate and velocity are not negative and the loss lies in
\* [0, 100] (values in 1/den)
C29_InRange(r) ==
    /\ r.temperature >= 0 /\ r.melt_rate >= 0 /\ r.velocity >= 0
    /\ 0 <= r.volume_loss_percent
    /\ r.volume_loss_percent <= 100 * gen_outcome.den

\* current_volume = initial_volume * (1 - volume_loss_percent / 100), both
\* sides multiplied by den (current_volume is in hundredths)
C29_VolumeMatches(r) ==
    r.current_volume * (gen_outcome.den \div 100)
        = C29_InitialVolume
              * (1000 * gen_outcome.den - 10 * r.volume_loss_percent)

\* C29: every snapshot the generator returns, every row of
\* generate_time_series after the trend factor included, has temperature,
\* melt_rate and velocity >= 0, volume_loss_percent in [0, 100], and
\* current_volume = initial_volume * (1 - volume_loss_percent / 100) for the
\* volume_loss_percent of the same snapshot.
C29_SnapshotsConsistent ==
    \A r \in C29_Snapshots : C29_InRange(r) /\ C29_VolumeMatches(r)

\* the ranges alone
C29_SnapshotsInRange == \A r \in C29_Snapshots : C29_InRange(r)

-----------------------------------------------------------------------------
(* C30 *)

\* a step that is a call of get_zone_temperature
C30_ZoneCall ==
    prov_calls' # prov_calls /\ prov_result'.op = "get_zone_temperature"

\* a failed call returns the zero record with the error, stores nothing and
\* has made its request
C30_FailedCall ==
    (C30_ZoneCall /\ prov_result'.kind = "error") =>
        /\ prov_result'.record.temperature = 0
        /\ prov_result'.record.average_temperature = 0
        /\ "error" \in DOMAIN prov_result'.record
        /\ temperature_cache' = temperature_cache
        /\ prov_requests' = prov_requests + 1

\* the call after a failed one, for the same zone, makes a request
C30_CallAfterFailure ==
    (/\ prov_result.op = "get_zone_temperature"
     /\ prov_result.kind = "error"
     /\ C30_ZoneCall
     /\ prov_result'.zone_id = prov_result.zone_id) =>
        /\ prov_result'.kind # "cached"
        /\ prov_requests' = prov_requests + 1

\* C30: a failed get_zone_temperature returns a record with temperature 0
\* that carries the error and leaves the cache as it was; the call after a
\* failed one, when it is for the same zone, issues a new request; and no
\* entry of the cache ever carries an error.
C30_FailuresNotCached ==
    /\ [](\A z \in DOMAIN temperature_cache :
              "error" \notin DOMAIN temperature_cache[z])
    /\ [][C30_FailedCall /\ C30_CallAfterFailure]_vars

\* three calls, each with a request of its own, and the third a failed
\* get_zone_temperature: nothing has been stored
C30_Witness ==
    /\ prov_calls = 3
    /\ prov_requests = 3
    /\ prov_result.op = "get_zone_temperature"
    /\ prov_result.kind = "error"
    /\ "error" \in DOMAIN prov_result.record
    /\ temperature_cache = << >>

====
